---- MODULE Spec2Model ----
(***************************************************************************)
(* A model of the zksync-rss backend core: the adaptive range collector,   *)
(* the processing state store and the RSS feed manager.                    *)
(*                                                                         *)
(* Sources: packages/backend/entry/processBlockRange.ts,                   *)
(*          packages/backend/shared/getEventsFromBatch.ts,                 *)
(*          packages/backend/rss/utils.ts                                  *)
(***************************************************************************)
EXTENDS Integers, Sequences, FiniteSets, TLC

(***************************************************************************)
(* Bounds of the model.                                                    *)
(***************************************************************************)
\* highest block number of the modelled chain
MaxBlock == 22
\* highest start block a collection request is issued with
MaxStart == 1
\* highest chain head and end block the processing runs are started with
MaxHead == 12
\* number of processing runs started one after the other
MaxRuns == 2
\* number of calls made on the feed manager
MaxFeedCalls == 6
\* ARCHIVE_ITEM_THRESHOLD of ~/shared, scaled down to the size of the model
ARCHIVE_ITEM_THRESHOLD == 2

(***************************************************************************)
(* Program constants (processBlockRange.ts:43-46).                         *)
(***************************************************************************)
API_CALL_DELAY == 100
RETRY_DELAY_BASE == 5000
MAX_SEGMENT_ATTEMPTS == 3
MIN_SEGMENT_SPAN == 10

VARIABLES
  \* ---- the log source (external collaborator) ----
  chain,           \* the logs of the chain, in the provider's order
  \* ---- collectEventsWithAdaptiveRange ----
  cpc,             \* position of the collector
  startBlock,      \* requested range
  endBlock,
  segments,        \* the work list
  segment,         \* the segment popped by the current iteration
  collected,       \* events gathered so far; the returned list once sorted
  apiCalls,
  failedSegments,  \* segments given up on
  recordErrors,    \* record.errors of the caller's ProcessingRecord
  sleepMs,         \* the delay of the sleep the collector is in
  \* ---- the previous complete run over the same range (re-run comparison) ----
  prevEvents,
  \* ---- the processing state file (data/processing-state.json) ----
  stateFile,       \* network name -> ProcessingState, NoState when not a key
  lastWrite,       \* the arguments and the record found by the last updateState
  \* ---- processBlockRangeForNetwork ----
  ppc,             \* position of the run
  pNetwork,        \* config.networkName
  pSkipStateUpdate,
  pUpdateFeed,     \* options.updateFeed !== false
  pMessage,        \* the message of the error caught by the run
  runs,            \* processing runs started so far
  \* ---- RSSFeedManager (the instance of the running process) ----
  initialized,
  seenGuids,
  items,
  \* ---- the blob store ----
  publishedFeed,   \* the main feed document, NoFeed when there is none
  archives,        \* the archive blobs: name (hash, time of upload) and content
  \* ---- the calls made on the feed manager ----
  feedCalls,       \* calls made so far
  loadedGuids,     \* the GUIDs initialize() has loaded and no archival dropped
  lastAdd,         \* the last addEvent call, when no other call followed it
  lastUpdate,      \* the last updateRSSFeed call, when no other call followed it
  \* ---- the lock files (data/processing-history.lock, data/rss-feed.lock) ----
  historyLock,     \* NoLock, or the caller that created the file
  rssLock,
  lpc,             \* caller -> its position between the two locks
  lockActor,       \* the caller that took the last step
  \* ---- the processing history (updateProcessingHistory) ----
  historyBlob,     \* the history blob, NoBlob when the key is absent
  historyArchives, \* the archive blobs of the history: path and records
  clock,           \* Date.now(), in units of the scaled archive interval
  recordCount,     \* records handed to updateProcessingHistory so far
  lastHistory,     \* the last call: what it loaded, found and did
  \* ---- getLogsWithPagination ----
  provider,        \* what the endpoint answers to this call
  filter,          \* the filter the function was called with
  gpc,             \* position of the call
  logs,            \* the logs accumulated so far
  pageKey,         \* the cursor of the last response, NoPageKey without one
  requests,        \* the requests sent so far
  result,          \* what the call has returned or thrown
  \* ---- BlockTimestampCache ----
  blockCache,      \* the Map: its values in insertion order
  cacheFile,       \* the entries last saved to disk
  cacheClock,      \* Date.now(), in units of the scaled maxAge
  setCalls,        \* calls of set so far
  lastSet,         \* the last set: its arguments and the Map before cleanup
  \* ---- processLatestBlocks and its two pipelines ----
  mainPc,          \* position of processLatestBlocks
  stateData,       \* the state parsed or created before the pipelines start
  headBlocks,      \* network -> the current block the run read
  tpc,             \* network -> position of its pipeline
  lastRecords,     \* network -> the record its pipeline wrote last
  uploadContent,   \* the file content uploadStateFile has read
  stateBlob        \* the state blob, NoBlob when the key is absent

collectorVars == <<cpc, startBlock, endBlock, segments, segment, collected,
                   apiCalls, failedSegments, recordErrors, sleepMs, prevEvents>>

storeVars == <<stateFile, lastWrite>>

pipelineVars == <<ppc, pNetwork, pSkipStateUpdate, pUpdateFeed, pMessage, runs>>

feedVars == <<initialized, seenGuids, items, publishedFeed, archives,
              feedCalls, loadedGuids, lastAdd, lastUpdate>>

lockVars == <<historyLock, rssLock, lpc, lockActor>>

historyVars == <<historyBlob, historyArchives, clock, recordCount, lastHistory>>

pageVars == <<provider, filter, gpc, logs, pageKey, requests, result>>

cacheVars == <<blockCache, cacheFile, cacheClock, setCalls, lastSet>>

taskVars == <<mainPc, stateData, headBlocks, tpc, lastRecords, uploadContent,
              stateBlob>>

vars == <<chain, collectorVars, storeVars, pipelineVars, feedVars, lockVars,
          historyVars,
          pageVars,
          cacheVars,
          taskVars>>

(***************************************************************************)
(* The log source.  A log is identified by its block, its transaction hash *)
(* and its index in the block; a transaction hash is a string of lower-    *)
(* case hex digits, written here as the sequence of its digit values       *)
(* (<<10, 0>> is "a0").  The provider lists logs by block, then log index, *)
(* which is not the order of the transaction hashes.                       *)
(***************************************************************************)
Log(b, h, i) == [blocknumber |-> b, txhash |-> h, logIndex |-> i]

\* the chain the processing runs read
PipelineChain ==
  << Log(3, <<11, 1>>, 0), Log(3, <<10, 0>>, 1), Log(3, <<10, 0>>, 2),
     Log(8, <<1, 15>>, 0), Log(12, <<10, 1>>, 0), Log(12, <<1, 10>>, 1) >>

Chains ==
  { <<>>,
    PipelineChain,
    << Log(0, <<15>>, 0), Log(5, <<2, 0>>, 0), Log(6, <<1, 0>>, 0),
       Log(7, <<1, 0>>, 0), Log(11, <<0, 1>>, 0), Log(11, <<0, 0>>, 1),
       Log(12, <<0, 0>>, 0), Log(MaxBlock, <<9>>, 0) >> }

\* monitorEventsInRange on success: the events of the logs of [from, to], in
\* the order the provider returned them.
MonitorEventsInRange(from, to) ==
  SelectSeq(chain, LAMBDA l : l.blocknumber >= from /\ l.blocknumber <= to)

ErrorMessages == {"rate limited", "missing event signature"}

(***************************************************************************)
(* collected.sort((a, b) => ...)  (processBlockRange.ts:211-216)           *)
(***************************************************************************)
RECURSIVE LocaleCompare(_, _)
\* a.txhash.localeCompare(b.txhash) for strings of lower-case hex digits:
\* digits collate before letters, a proper prefix before its extensions.
LocaleCompare(a, b) ==
  IF a = <<>> /\ b = <<>> THEN 0
  ELSE IF a = <<>> THEN -1
  ELSE IF b = <<>> THEN 1
  ELSE IF Head(a) < Head(b) THEN -1
  ELSE IF Head(a) > Head(b) THEN 1
  ELSE LocaleCompare(Tail(a), Tail(b))

CompareBlockOnly(a, b) == a.blocknumber - b.blocknumber

\* the comparator passed to sort
CompareEvents(a, b) ==
  IF a.blocknumber # b.blocknumber
    THEN a.blocknumber - b.blocknumber
    ELSE LocaleCompare(a.txhash, b.txhash)

\* the position element i of s takes in a stable sort: behind every element
\* that compares smaller and every earlier element that compares equal
SortedPosition(s, i) ==
  1 + Cardinality({ j \in 1..Len(s) :
                      \/ CompareEvents(s[j], s[i]) < 0
                      \/ CompareEvents(s[j], s[i]) = 0 /\ j < i })

\* Array.prototype.sort is stable
SortEvents(s) ==
  [k \in 1..Len(s) |-> s[CHOOSE i \in 1..Len(s) : SortedPosition(s, i) = k]]

(***************************************************************************)
(* The failure handler of one segment (processBlockRange.ts:164-204).      *)
(***************************************************************************)
NoSegment == [from |-> 0, to |-> -1, attempt |-> 0]

MidBeforeTo(seg) == seg.to - 1

\* Math.floor((segment.from + segment.to) / 2)
Mid(seg) == (seg.from + seg.to) \div 2

ShouldSplitWide(seg) ==
  /\ seg.to - seg.from > 2 * MIN_SEGMENT_SPAN
  /\ Mid(seg) > seg.from
  /\ Mid(seg) < seg.to

ShouldSplit(seg) ==
  /\ seg.to - seg.from > MIN_SEGMENT_SPAN
  /\ Mid(seg) > seg.from
  /\ Mid(seg) < seg.to

SplitChildrenOverlap(seg) ==
  << [from |-> seg.from, to |-> Mid(seg), attempt |-> 0],
     [from |-> Mid(seg), to |-> seg.to, attempt |-> 0] >>

SplitChildrenGap(seg) ==
  << [from |-> seg.from, to |-> Mid(seg), attempt |-> 0],
     [from |-> Mid(seg) + 2, to |-> seg.to, attempt |-> 0] >>

SplitChildrenRightFirst(seg) ==
  << [from |-> Mid(seg) + 1, to |-> seg.to, attempt |-> 0],
     [from |-> seg.from, to |-> Mid(seg), attempt |-> 0] >>

\* the two segments unshifted on a split
SplitChildren(seg) ==
  << [from |-> seg.from, to |-> Mid(seg), attempt |-> 0],
     [from |-> Mid(seg) + 1, to |-> seg.to, attempt |-> 0] >>

CanRetry(seg) == seg.attempt + 1 <= MAX_SEGMENT_ATTEMPTS

RetrySegmentSameAttempt(seg) == seg

\* { ...segment, attempt: segment.attempt + 1 }
RetrySegment(seg) == [seg EXCEPT !.attempt = @ + 1]

RetryDelay(seg) == RETRY_DELAY_BASE * (seg.attempt + 1)

FailureOutcomeRethrow(seg) ==
  IF ShouldSplit(seg) THEN "split"
  ELSE IF CanRetry(seg) THEN "retry"
  ELSE "throw"

\* what the catch block does with a failed segment
FailureOutcome(seg) ==
  IF ShouldSplit(seg) THEN "split"
  ELSE IF CanRetry(seg) THEN "retry"
  ELSE "abandon"

FailureOfFirstBlock(seg, err) ==
  [from |-> seg.from, to |-> seg.from, error |-> err]

Failure(seg, err) == [from |-> seg.from, to |-> seg.to, error |-> err]

RecordError(seg, err) ==
  [block |-> seg.from, error |-> <<"Failed to fetch range", seg.from, seg.to, err>>]

(***************************************************************************)
(* collectEventsWithAdaptiveRange (processBlockRange.ts:127-219)           *)
(***************************************************************************)
CollectStart(s, e) ==
  /\ startBlock' = s
  /\ endBlock' = e
  /\ segment' = NoSegment
  /\ collected' = <<>>
  /\ apiCalls' = 0
  /\ failedSegments' = <<>>
  /\ recordErrors' = <<>>
  /\ sleepMs' = 0
  /\ IF s > e
       THEN segments' = <<>> /\ cpc' = "returned"
       ELSE segments' = <<[from |-> s, to |-> e, attempt |-> 0]>> /\ cpc' = "loop"

\* the loop condition, segments.shift() and the from > to check; after the
\* loop, the sort and the return
LoopHead ==
  /\ cpc = "loop"
  /\ IF segments = <<>>
       THEN /\ collected' = SortEvents(collected)
            /\ cpc' = "returned"
            /\ UNCHANGED <<segments, segment>>
       ELSE /\ segment' = Head(segments)
            /\ segments' = Tail(segments)
            /\ cpc' = IF Head(segments).from > Head(segments).to
                        THEN "loop" ELSE "fetching"
            /\ UNCHANGED collected
  /\ UNCHANGED <<chain, startBlock, endBlock, apiCalls, failedSegments,
                 recordErrors, sleepMs, prevEvents>>
  /\ UNCHANGED <<taskVars, cacheVars, pageVars, storeVars, pipelineVars, feedVars, lockVars, historyVars>>

\* monitorEventsInRange resolved
FetchSuccess ==
  /\ cpc = "fetching"
  /\ apiCalls' = apiCalls + 1
  /\ collected' = collected \o MonitorEventsInRange(segment.from, segment.to)
  /\ IF Len(segments) > 0
       THEN cpc' = "pacing" /\ sleepMs' = API_CALL_DELAY
       ELSE cpc' = "loop" /\ UNCHANGED sleepMs
  /\ UNCHANGED <<chain, startBlock, endBlock, segments, segment,
                 failedSegments, recordErrors, prevEvents>>
  /\ UNCHANGED <<taskVars, cacheVars, pageVars, storeVars, pipelineVars, feedVars, lockVars, historyVars>>

\* monitorEventsInRange rejected with message err: the catch block
FetchFail(err) ==
  /\ cpc = "fetching"
  /\ LET outcome == FailureOutcome(segment) IN
       CASE outcome = "split" ->
              /\ segments' = SplitChildren(segment) \o segments
              /\ cpc' = "pacing"
              /\ sleepMs' = API_CALL_DELAY
              /\ UNCHANGED <<failedSegments, recordErrors>>
         [] outcome = "retry" ->
              /\ cpc' = "backoff"
              /\ sleepMs' = RetryDelay(segment)
              /\ UNCHANGED <<segments, failedSegments, recordErrors>>
         [] outcome = "abandon" ->
              /\ recordErrors' = Append(recordErrors, RecordError(segment, err))
              /\ failedSegments' = Append(failedSegments, Failure(segment, err))
              /\ cpc' = "loop"
              /\ UNCHANGED <<segments, sleepMs>>
         [] OTHER ->
              \* an error leaving the catch block ends the call
              /\ cpc' = "threw"
              /\ UNCHANGED <<segments, failedSegments, recordErrors, sleepMs>>
  /\ UNCHANGED <<chain, startBlock, endBlock, segment, collected, apiCalls,
                 prevEvents>>
  /\ UNCHANGED <<taskVars, cacheVars, pageVars, storeVars, pipelineVars, feedVars, lockVars, historyVars>>

\* sleep(API_CALL_DELAY) is over
WakePacing ==
  /\ cpc = "pacing"
  /\ cpc' = "loop"
  /\ UNCHANGED <<chain, startBlock, endBlock, segments, segment, collected,
                 apiCalls, failedSegments, recordErrors, sleepMs, prevEvents>>
  /\ UNCHANGED <<taskVars, cacheVars, pageVars, storeVars, pipelineVars, feedVars, lockVars, historyVars>>

\* sleep(delay) of a retry is over: the segment goes back to the front
WakeBackoff ==
  /\ cpc = "backoff"
  /\ segments' = <<RetrySegment(segment)>> \o segments
  /\ cpc' = "loop"
  /\ UNCHANGED <<chain, startBlock, endBlock, segment, collected, apiCalls,
                 failedSegments, recordErrors, sleepMs, prevEvents>>
  /\ UNCHANGED <<taskVars, cacheVars, pageVars, storeVars, pipelineVars, feedVars, lockVars, historyVars>>

(***************************************************************************)
(* updateState (processBlockRange.ts:330-375).  A value that may be        *)
(* undefined is written <<>> (undefined; JSON.stringify drops the key) or  *)
(* <<v>>; a Partial<ProcessingState> is a record of the fields it has.     *)
(***************************************************************************)
PipelineNetworks == {"Ethereum Mainnet", "ZKSync"}

\* the display names the catch-up script writes its state under
CatchupNetworks == {"Ethereum Mainnet", "ZKsync Network"}

StateKeys == PipelineNetworks \cup CatchupNetworks

Fields == {"lastProcessedBlock", "hasError", "lastError", "retryCount",
           "consecutiveFailures", "apiCallCount", "failedSegments"}

\* { ...undefined } has no field
EmptyState == [f \in Fields |-> <<>>]

\* const key = `${item.from}-${item.to}` (block numbers are not negative)
SegmentKey(item) == <<item.from, item.to>>

\* the values of the Map filled in the order of combined, first entry of a
\* key kept
UniqueByKey(combined) ==
  LET keep == { i \in 1..Len(combined) :
                  \A j \in 1..(i - 1) :
                    SegmentKey(combined[j]) # SegmentKey(combined[i]) }
  IN [k \in 1..Cardinality(keep) |->
        combined[CHOOSE i \in keep : Cardinality({j \in keep : j <= i}) = k]]

MergeFailedSegmentsReplace(existing, state) ==
  IF "failedSegments" \in DOMAIN state /\ state.failedSegments # <<>>
    THEN state.failedSegments
    ELSE existing.failedSegments

\* mergedFailedSegments
MergeFailedSegments(existing, state) ==
  IF "failedSegments" \in DOMAIN state /\ state.failedSegments # <<>>
    THEN IF Len(state.failedSegments[1]) = 0
           THEN << <<>> >>
         ELSE IF existing.failedSegments # <<>> /\ Len(existing.failedSegments[1]) > 0
           THEN <<UniqueByKey(existing.failedSegments[1] \o state.failedSegments[1])>>
         ELSE state.failedSegments
    ELSE existing.failedSegments

\* const existing = allStates[network]
Existing(allStates, network) ==
  IF allStates[network] = <<>> THEN EmptyState ELSE allStates[network][1]

\* { ...existing, ...state, failedSegments: mergedFailedSegments }
UpdatedRecord(existing, state) ==
  [f \in Fields |->
     IF f = "failedSegments" THEN MergeFailedSegments(existing, state)
     ELSE IF f \in DOMAIN state THEN state[f]
     ELSE existing[f]]

\* the state parsed when the run started
ReadStateData == stateData

\* JSON.parse(fs.readFileSync(STATE_FILE_PATH)), {} when there is no file
ReadStateFile == stateFile

UpdateState(network, state) ==
  /\ stateFile' =
       [ReadStateFile EXCEPT
          ![network] = <<UpdatedRecord(Existing(ReadStateFile, network), state)>>]
  /\ lastWrite' = <<[network |-> network, state |-> state,
                     existing |-> stateFile[network]]>>

(***************************************************************************)
(* processBlockRangeForNetwork (processBlockRange.ts:224-328) as started   *)
(* by processLatestBlocks and processSpecificBlockRanges, and the catch-up *)
(* script (getEventsFromBatch.ts:332-421).                                 *)
(***************************************************************************)
\* the state written once the collector has returned
SuccessState ==
  [lastProcessedBlock |-> <<endBlock>>,
   hasError |-> <<Len(failedSegments) > 0>>,
   lastError |-> IF failedSegments = <<>> THEN <<>> ELSE <<failedSegments[1].error>>,
   consecutiveFailures |-> <<Len(failedSegments)>>,
   apiCallCount |-> <<apiCalls>>,
   failedSegments |-> <<failedSegments>>]

ErrorStateRewind ==
  [lastProcessedBlock |-> <<startBlock - 1>>,
   hasError |-> <<TRUE>>,
   lastError |-> <<pMessage>>,
   consecutiveFailures |-> <<IF recordErrors = <<>> THEN 1 ELSE Len(recordErrors)>>]

\* the state written by the catch block
ErrorState ==
  [hasError |-> <<TRUE>>,
   lastError |-> <<pMessage>>,
   consecutiveFailures |-> <<IF recordErrors = <<>> THEN 1 ELSE Len(recordErrors)>>]

\* the state written by the catch-up script
CatchupState(toBlock) ==
  [lastProcessedBlock |-> <<toBlock>>,
   hasError |-> <<FALSE>>,
   lastError |-> <<>>,
   consecutiveFailures |-> <<0>>,
   retryCount |-> <<0>>,
   failedSegments |-> << <<>> >>]

\* the end blocks the runs are started with: the first block and the blocks
\* at the chain head
EndBlocks == {0} \cup ((MaxHead - 1)..MaxHead)

RunOver == ppc \in {"idle", "done", "failed"}

StartRun(network, s, e, skipStateUpdate, updateFeed) ==
  /\ RunOver
  /\ runs < MaxRuns
  /\ runs' = runs + 1
  /\ ppc' = "collecting"
  /\ pNetwork' = network
  /\ pSkipStateUpdate' = skipStateUpdate
  /\ pUpdateFeed' = updateFeed
  /\ pMessage' = ""
  /\ CollectStart(s, e)
  /\ UNCHANGED <<taskVars, cacheVars, pageVars, feedVars, lockVars, historyVars, chain, prevEvents, storeVars>>

\* processSpecificBlockRanges(networkName, startBlock, endBlock, options)
ProcessSpecificBlockRanges ==
  \E network \in PipelineNetworks, s \in 0..MaxStart, e \in EndBlocks,
     skipStateUpdate \in BOOLEAN, updateFeed \in BOOLEAN :
    StartRun(network, s, e, skipStateUpdate, updateFeed)

\* one pipeline of processLatestBlocks, for a network the state file has a
\* watermark of: from lastProcessedBlock + 1 to the current block
ProcessLatestBlocks ==
  \E network \in PipelineNetworks, currentBlock \in EndBlocks :
    /\ stateFile[network] # <<>>
    /\ stateFile[network][1].lastProcessedBlock # <<>>
    /\ StartRun(network, stateFile[network][1].lastProcessedBlock[1] + 1,
                currentBlock, FALSE, TRUE)

\* the collector has returned: the state write and what follows up to the
\* next await
AfterCollect ==
  /\ ppc = "collecting"
  /\ cpc = "returned"
  /\ IF ~pSkipStateUpdate
       THEN UpdateState(pNetwork, SuccessState) /\ ppc' = "history"
       ELSE UNCHANGED storeVars /\ ppc' = "feed"
  /\ UNCHANGED <<taskVars, cacheVars, pageVars, feedVars, lockVars, historyVars, chain, collectorVars, pNetwork, pSkipStateUpdate, pUpdateFeed,
                 pMessage, runs>>

\* updateProcessingHistory(record) resolved
HistoryUpdated ==
  /\ ppc = "history"
  /\ ppc' = "feed"
  /\ UNCHANGED <<taskVars, cacheVars, pageVars, feedVars, lockVars, historyVars, chain, collectorVars, storeVars, pNetwork, pSkipStateUpdate,
                 pUpdateFeed, pMessage, runs>>

\* updateProcessingHistory(record) rejected
HistoryFailed ==
  /\ ppc = "history"
  /\ ppc' = "catch"
  /\ pMessage' = "Could not acquire lock"
  /\ UNCHANGED <<taskVars, cacheVars, pageVars, feedVars, lockVars, historyVars, chain, collectorVars, storeVars, pNetwork, pSkipStateUpdate,
                 pUpdateFeed, runs>>

FeedWanted == Len(collected) > 0 /\ pUpdateFeed

\* the feed update block ran through, or was not entered
FeedUpdated ==
  /\ ppc = "feed"
  /\ ppc' = "done"
  /\ UNCHANGED <<taskVars, cacheVars, pageVars, feedVars, lockVars, historyVars, chain, collectorVars, storeVars, pNetwork, pSkipStateUpdate,
                 pUpdateFeed, pMessage, runs>>

\* acquireRSSLock, addEventToRSS, updateRSSFeed or releaseRSSLock rejected
FeedFailed ==
  /\ ppc = "feed"
  /\ FeedWanted
  /\ ppc' = "catch"
  /\ pMessage' = "Could not acquire RSS lock"
  /\ UNCHANGED <<taskVars, cacheVars, pageVars, feedVars, lockVars, historyVars, chain, collectorVars, storeVars, pNetwork, pSkipStateUpdate,
                 pUpdateFeed, runs>>

\* the catch block: the error state write, the history update, the rethrow
CatchBlock ==
  /\ ppc = "catch"
  /\ IF ~pSkipStateUpdate
       THEN UpdateState(pNetwork, ErrorState)
       ELSE UNCHANGED storeVars
  /\ recordErrors' = IF recordErrors = <<>>
                       THEN <<[block |-> startBlock, error |-> pMessage]>>
                       ELSE recordErrors
  /\ ppc' = "failed"
  /\ UNCHANGED <<taskVars, cacheVars, pageVars, feedVars, lockVars, historyVars, chain, cpc, startBlock, endBlock, segments, segment, collected,
                 apiCalls, failedSegments, sleepMs, prevEvents, pNetwork,
                 pSkipStateUpdate, pUpdateFeed, pMessage, runs>>

\* the catch-up script over a range ending at toBlock, its fetch and feed
\* update done: the state write
CatchupBlockRange ==
  /\ RunOver
  /\ runs < MaxRuns
  /\ runs' = runs + 1
  /\ \E network \in CatchupNetworks, toBlock \in EndBlocks :
       UpdateState(network, CatchupState(toBlock))
  /\ UNCHANGED <<taskVars, cacheVars, pageVars, feedVars, lockVars, historyVars, chain, collectorVars, ppc, pNetwork, pSkipStateUpdate,
                 pUpdateFeed, pMessage>>

InitStore ==
  /\ stateFile = [n \in StateKeys |-> <<>>]
  /\ lastWrite = <<>>

InitPipeline ==
  /\ ppc = "idle"
  /\ pNetwork = "ZKSync"
  /\ pSkipStateUpdate = FALSE
  /\ pUpdateFeed = TRUE
  /\ pMessage = ""

(***************************************************************************)
(* The feed manager (rss/utils.ts).                                        *)
(*                                                                         *)
(* A string is a sequence of characters.  A number n >= 0 that may exceed  *)
(* the range of the model checker's integers is the record [k, u] with     *)
(* n = 1000 * k + u and u < 1000; finite is FALSE for Infinity.            *)
(***************************************************************************)
Number(k, u) == [k |-> k, u |-> u, finite |-> TRUE]

Infinity == [k |-> 0, u |-> 0, finite |-> FALSE]

\* timestamp > 1e12
GreaterThan1e12(n) ==
  ~n.finite \/ n.k > 1000000000 \/ (n.k = 1000000000 /\ n.u > 0)

\* new Date(timestamp > 1e12 ? timestamp : timestamp * 1000): the time value
\* in milliseconds; a Date of an infinite time value is an Invalid Date
NewDate(n) ==
  IF ~n.finite THEN [valid |-> FALSE, k |-> 0, u |-> 0]
  ELSE IF GreaterThan1e12(n) THEN [valid |-> TRUE, k |-> n.k, u |-> n.u]
  ELSE [valid |-> TRUE, k |-> 1000 * n.k + n.u, u |-> 0]

\* A timestamp is [type, number, parsed]: number is what Number(timestamp)
\* yields, parsed what Date.parse(timestamp) yields, each empty for NaN.
SecondsString == [type |-> "string", number |-> <<Number(1700000, 0)>>, parsed |-> <<>>]
MillisNumber == [type |-> "number", number |-> <<Number(1700000050, 0)>>, parsed |-> <<>>]
DateString == [type |-> "string", number |-> <<>>, parsed |-> <<Number(1700000000, 500)>>]
TextString == [type |-> "string", number |-> <<>>, parsed |-> <<>>]
NaNNumber == [type |-> "number", number |-> <<>>, parsed |-> <<>>]
InfinityNumber == [type |-> "number", number |-> <<Infinity>>, parsed |-> <<>>]

Timestamps == {SecondsString, MillisNumber, DateString, TextString, NaNNumber,
               InfinityNumber}

parseEventDateUnchecked(timestamp) ==
  IF timestamp.number # <<>>
    THEN <<NewDate(timestamp.number[1])>>
  ELSE IF timestamp.parsed = <<>>
    THEN <<[valid |-> FALSE, k |-> 0, u |-> 0]>>
  ELSE <<[valid |-> TRUE, k |-> timestamp.parsed[1].k, u |-> timestamp.parsed[1].u]>>

\* the Date, or nothing for null
parseEventDate(timestamp) ==
  IF timestamp.type = "number"
    THEN IF timestamp.number = <<>> THEN <<>> ELSE <<NewDate(timestamp.number[1])>>
  ELSE IF timestamp.number # <<>>
    THEN <<NewDate(timestamp.number[1])>>
  ELSE IF timestamp.parsed = <<>>
    THEN <<>>
  ELSE <<[valid |-> TRUE, k |-> timestamp.parsed[1].k, u |-> timestamp.parsed[1].u]>>

ToLowerCase(c) ==
  CASE c = "Z" -> "z" [] c = "K" -> "k" [] c = "V" -> "v" [] c = "L" -> "l"
    [] OTHER -> c

\* s.toLowerCase()
LowerCase(s) == [i \in 1..Len(s) |-> ToLowerCase(s[i])]

IsNotWhitespace(c) == c # " "

KeepWhitespace(s) == s

\* s.replace(/\s+/g, "")
StripWhitespace(s) == SelectSeq(s, IsNotWhitespace)

DigitCharacters == <<"0", "1", "2", "3", "4", "5", "6", "7", "8", "9">>

RECURSIVE NumberToString(_)
NumberToString(n) ==
  IF n < 10 THEN <<DigitCharacters[n + 1]>>
  ELSE NumberToString(n \div 10) \o <<DigitCharacters[(n % 10) + 1]>>

\* parts.join("-")
RECURSIVE Join(_)
Join(parts) ==
  IF Len(parts) = 1 THEN parts[1]
  ELSE parts[1] \o <<"-">> \o Join(Tail(parts))

\* ethers.keccak256(ethers.toUtf8Bytes(normalized)): no two inputs of the
\* model have the same digest
Keccak256(normalized) == [keccak256 |-> normalized]

getEventGuid(event) ==
  Keccak256(Join(<<StripWhitespace(LowerCase(event.networkName)),
                   NumberToString(event.chainId),
                   StripWhitespace(LowerCase(event.title)),
                   NumberToString(event.block),
                   LowerCase(event.link)>>))

\* getEventGuid of shared/feedPreview.ts
feedPreviewGetEventGuid(event) ==
  Keccak256(Join(<<StripWhitespace(LowerCase(event.networkName)),
                   NumberToString(event.chainId),
                   StripWhitespace(LowerCase(event.title)),
                   NumberToString(event.block),
                   LowerCase(event.link)>>))

\* (networkName, chainId, title, block, link) of the events fed to the
\* manager; the second is the first in another spelling
FirstIdentity ==
  [networkName |-> <<"Z", "K">>, chainId |-> 324, title |-> <<"V">>,
   block |-> 5, link |-> <<"L">>]

OtherIdentities ==
  { [networkName |-> <<"z", " ", "k">>, chainId |-> 324, title |-> <<"v", " ">>,
     block |-> 5, link |-> <<"l">>],
    [networkName |-> <<"Z", "K">>, chainId |-> 324, title |-> <<"V">>,
     block |-> 6, link |-> <<"L">>],
    [networkName |-> <<"Z", "K">>, chainId |-> 324, title |-> <<"V">>,
     block |-> 16, link |-> <<"L", " ">>] }

FeedEvents ==
  { [identity |-> FirstIdentity, timestamp |-> ts] : ts \in Timestamps }
    \cup { e \in { [identity |-> id, timestamp |-> ts] :
                       id \in OtherIdentities,
                       ts \in {SecondsString, MillisNumber} } :
             /\ e.identity.block = 5 => e.timestamp = SecondsString
             /\ e.identity.block = 16 => e.timestamp = MillisNumber }

NoFeed == <<>>

NoCall == <<>>
GuidsOf(list) == { list[i].guid : i \in 1..Len(list) }

\* the item as the feed document carries it: pubDate has no milliseconds
Serialize(item) ==
  [item EXCEPT !.date = [valid |-> item.date.valid, k |-> item.date.k, u |-> 0]]

\* feed.xml() of a feed holding list
FeedXml(list) == [i \in 1..Len(list) |-> Serialize(list[i])]

\* addItemToFeed for each item of the downloaded feed: the items whose guid
\* is neither seen nor carried by an earlier item are appended
LoadedItems(seen, parsed) ==
  SelectSeq([i \in 1..Len(parsed) |->
               [item |-> parsed[i],
                fresh |-> /\ parsed[i].guid \notin seen
                          /\ \A j \in 1..(i - 1) : parsed[j].guid # parsed[i].guid]],
            LAMBDA x : x.fresh)

\* initialize(): downloadExistingFeed() has resolved
Initialize ==
  /\ ~initialized
  /\ LET parsed == IF publishedFeed = NoFeed THEN <<>> ELSE publishedFeed[1]
         loaded == LoadedItems(seenGuids, parsed)
         added == [i \in 1..Len(loaded) |-> loaded[i].item]
     IN /\ items' = items \o added
        /\ seenGuids' = seenGuids \cup GuidsOf(added)
        /\ loadedGuids' = GuidsOf(added)
  /\ initialized' = TRUE
  /\ lastAdd' = NoCall
  /\ lastUpdate' = NoCall
  /\ UNCHANGED <<publishedFeed, archives, feedCalls>>
  /\ UNCHANGED <<taskVars, cacheVars, pageVars, chain, collectorVars, storeVars, pipelineVars, lockVars, historyVars>>

\* initialize(): downloadExistingFeed() has thrown, the call is rejected
InitializeFailed ==
  /\ ~initialized
  /\ feedCalls < MaxFeedCalls
  /\ feedCalls' = feedCalls + 1
  /\ lastAdd' = NoCall
  /\ lastUpdate' = NoCall
  /\ UNCHANGED <<initialized, seenGuids, items, publishedFeed, archives, loadedGuids>>
  /\ UNCHANGED <<taskVars, cacheVars, pageVars, chain, collectorVars, storeVars, pipelineVars, lockVars, historyVars>>

HasSeenNever(guid) == FALSE

\* this.seenGuids.has(guid)
HasSeen(guid) == guid \in seenGuids

\* how addEvent(event) ends
AddEventOutcome(event) ==
  LET date == parseEventDate(event.timestamp)
  IN IF date = <<>> THEN "rejected"
     ELSE IF HasSeen(getEventGuid(event.identity)) THEN "duplicate"
     ELSE IF ~date[1].valid THEN "threw"   \* date.toISOString()
     ELSE "added"

\* the item addEvent pushes
NewItem(event) ==
  [title |-> event.identity.title,
   url |-> event.identity.link,
   description |-> [network |-> event.identity.networkName,
                    chainId |-> event.identity.chainId,
                    block |-> event.identity.block],
   date |-> parseEventDate(event.timestamp)[1],
   guid |-> getEventGuid(event.identity)]

\* addEvent(event) of an initialized manager
AddEvent(event) ==
  /\ initialized
  /\ feedCalls < MaxFeedCalls
  /\ feedCalls' = feedCalls + 1
  /\ IF AddEventOutcome(event) = "added"
       THEN /\ seenGuids' = seenGuids \cup {getEventGuid(event.identity)}
            /\ items' = Append(items, NewItem(event))
       ELSE UNCHANGED <<seenGuids, items>>
  /\ lastAdd' = <<[call |-> feedCalls + 1,
                   event |-> event,
                   outcome |-> AddEventOutcome(event),
                   previous |-> IF lastAdd = NoCall THEN <<>> ELSE <<lastAdd[1].event>>]>>
  /\ lastUpdate' = NoCall
  /\ UNCHANGED <<initialized, publishedFeed, archives, loadedGuids>>
  /\ UNCHANGED <<taskVars, cacheVars, pageVars, chain, collectorVars, storeVars, pipelineVars, lockVars, historyVars>>

\* new Date(b.date).getTime() - new Date(a.date).getTime() < 0
Newer(a, b) == a.date.k > b.date.k \/ (a.date.k = b.date.k /\ a.date.u > b.date.u)

DatePosition(list, i) ==
  1 + Cardinality({ j \in 1..Len(list) :
                      \/ Newer(list[j], list[i])
                      \/ ~Newer(list[i], list[j]) /\ j < i })

\* generate(): the items newest first, items of one date in their order
Generate(list) ==
  [k \in 1..Len(list) |-> list[CHOOSE i \in 1..Len(list) : DatePosition(list, i) = k]]

\* how upload(feed) ends: it has returned true, or one of its steps has
\* thrown and it has returned false, or the removal of the temporary file has
\* thrown in the try block and again in the catch block
UploadOutcomes ==
  {"uploaded", "write failed", "upload failed", "cleanup failed", "cleanup threw"}

\* uploadToGCS has resolved: the blob store holds the new document
Stored(outcome) == outcome \in {"uploaded", "cleanup failed", "cleanup threw"}

\* unlinkSync of the catch block has thrown
UploadThrows(outcome) == outcome = "cleanup threw"

UploadReturnsTrue(outcome) == TRUE

UploadReturns(outcome) == outcome = "uploaded"

ItemsToKeepOneMore(sorted) == SubSeq(sorted, 1, ARCHIVE_ITEM_THRESHOLD + 1)

\* items.slice(0, ARCHIVE_ITEM_THRESHOLD)
ItemsToKeep(sorted) == SubSeq(sorted, 1, ARCHIVE_ITEM_THRESHOLD)

ItemsToArchiveSkipOne(sorted) ==
  SubSeq(sorted, ARCHIVE_ITEM_THRESHOLD + 2, Len(sorted))

\* items.slice(ARCHIVE_ITEM_THRESHOLD)
ItemsToArchive(sorted) == SubSeq(sorted, ARCHIVE_ITEM_THRESHOLD + 1, Len(sorted))

\* ethers.keccak256(ethers.toUtf8Bytes(archiveContent)).slice(2, 10)
ArchiveHash(archiveContent) == Keccak256(archiveContent)

\* files.find(file => file.name.includes(archiveHash))
ExistingArchive(files, archiveHash) == { file \in files : file.hash = archiveHash }

UploadArchiveAlways(files, archiveContent, now) ==
  files \cup {[hash |-> ArchiveHash(archiveContent), time |-> now,
               content |-> archiveContent]}

\* the blob store after the archive step: the archive is uploaded as
\* archive-<hash>-<now>.xml unless a blob of that hash exists
UploadArchive(files, archiveContent, now) ==
  IF ExistingArchive(files, ArchiveHash(archiveContent)) = {}
    THEN files \cup {[hash |-> ArchiveHash(archiveContent), time |-> now,
                      content |-> archiveContent]}
    ELSE files

\* updateRSSFeed() of an initialized manager that has reached upload()
UpdateRSSFeed ==
  /\ initialized
  /\ feedCalls < MaxFeedCalls
  /\ feedCalls' = feedCalls + 1
  /\ lastAdd' = NoCall
  /\ \E outcome \in UploadOutcomes :
       LET sorted == Generate(items)
           archiving == Len(sorted) > ARCHIVE_ITEM_THRESHOLD
           feedItems == IF archiving THEN ItemsToKeep(sorted) ELSE sorted
       IN /\ IF archiving
               THEN /\ archives' = UploadArchive(archives, FeedXml(ItemsToArchive(sorted)),
                                               feedCalls + 1)
                    /\ seenGuids' = GuidsOf(feedItems)
                    /\ loadedGuids' = loadedGuids \cap GuidsOf(feedItems)
                    /\ items' = feedItems
               ELSE /\ UNCHANGED <<archives, seenGuids, loadedGuids>>
                    /\ items' = IF UploadReturns(outcome) THEN feedItems ELSE items
          /\ publishedFeed' = IF Stored(outcome) THEN <<FeedXml(feedItems)>>
                              ELSE publishedFeed
          /\ lastUpdate' = <<[call |-> feedCalls + 1,
                              outcome |-> outcome,
                              returned |-> IF UploadThrows(outcome)
                                            THEN <<>>
                                            ELSE <<UploadReturns(outcome)>>,
                              itemsBefore |-> items,
                              archived |-> IF archiving THEN <<FeedXml(ItemsToArchive(sorted))>>
                                           ELSE <<>>,
                              archivesBefore |-> archives]>>
  /\ UNCHANGED initialized
  /\ UNCHANGED <<taskVars, cacheVars, pageVars, chain, collectorVars, storeVars, pipelineVars, lockVars, historyVars>>

\* updateRSSFeed() rejected while it lists or uploads the archive
ArchiveFailed ==
  /\ initialized
  /\ feedCalls < MaxFeedCalls
  /\ Len(items) > ARCHIVE_ITEM_THRESHOLD
  /\ feedCalls' = feedCalls + 1
  /\ lastAdd' = NoCall
  /\ lastUpdate' = <<[call |-> feedCalls + 1,
                      outcome |-> "archive failed",
                      returned |-> <<>>,
                      itemsBefore |-> items,
                      archived |-> <<>>,
                      archivesBefore |-> archives]>>
  /\ UNCHANGED <<initialized, seenGuids, items, publishedFeed, archives, loadedGuids>>
  /\ UNCHANGED <<taskVars, cacheVars, pageVars, chain, collectorVars, storeVars, pipelineVars, lockVars, historyVars>>

\* the process ends and a new one starts with a fresh manager
Restart ==
  /\ feedCalls < MaxFeedCalls
  /\ feedCalls' = feedCalls + 1
  /\ initialized' = FALSE
  /\ seenGuids' = {}
  /\ items' = <<>>
  /\ loadedGuids' = {}
  /\ lastAdd' = NoCall
  /\ lastUpdate' = NoCall
  /\ UNCHANGED <<publishedFeed, archives>>
  /\ UNCHANGED <<taskVars, cacheVars, pageVars, chain, collectorVars, storeVars, pipelineVars, lockVars, historyVars>>

InitFeed ==
  /\ initialized = FALSE
  /\ seenGuids = {}
  /\ items = <<>>
  /\ publishedFeed = NoFeed
  /\ archives = {}
  /\ feedCalls = 0
  /\ loadedGuids = {}
  /\ lastAdd = NoCall
  /\ lastUpdate = NoCall

(***************************************************************************)
(* The lock files.  A caller is one processBlockRangeForNetwork from the    *)
(* point where it records its run: updateProcessingHistory under the       *)
(* history lock, the feed update under the RSS lock, and the catch block    *)
(* with its second updateProcessingHistory.  The callers are the pipelines  *)
(* of one run and of runs that overlap; they share the data directory.      *)
(* Waiting 100 ms for the next try is a stuttering step, and the 5 s        *)
(* timeout may strike at any try that finds the file.                       *)
(***************************************************************************)
MaxCallers == 2

Callers == 1..MaxCallers

NoLock == <<>>

NoError == <<>>

\* where a caller is; inCatch: in the catch block of the run; error: the
\* error the run has caught
At(place, inCatch, error) == [at |-> place, inCatch |-> inCatch, error |-> error]

\* fs.writeFile(path, pid, {flag: "wx"}) has succeeded
CreateLock(c) == <<c>>

\* fs.unlink(path)
ReleaseLock(lock) == NoLock

CatchReleaseSkipped(lock) == lock

\* the catch block of updateProcessingHistory: releaseLock() when the file
\* exists
CatchRelease(lock) == IF lock # NoLock THEN ReleaseLock(lock) ELSE lock

\* the finally block of the feed update
FinallyRelease(lock) == ReleaseLock(lock)

\* updateProcessingHistory has thrown: the run enters its catch block, which
\* calls updateProcessingHistory again; thrown there, the error is logged
\* and the run rethrows the error it caught
HistoryThrown(c, message) ==
  IF lpc[c].inCatch
    THEN At("thrown", TRUE, lpc[c].error)
    ELSE At("acquireLock", TRUE, <<message>>)

\* updateProcessingHistory has returned
HistoryReturned(c) ==
  IF lpc[c].inCatch
    THEN At("thrown", TRUE, lpc[c].error)
    ELSE At("recorded", FALSE, NoError)

\* line 263: await updateProcessingHistory(record)
CallUpdateProcessingHistory(c) ==
  /\ lpc[c].at = "start"
  /\ lpc' = [lpc EXCEPT ![c] = At("acquireLock", FALSE, NoError)]
  /\ lockActor' = <<c>>
  /\ UNCHANGED <<historyLock, rssLock>>
  /\ UNCHANGED <<taskVars, cacheVars, pageVars, chain, collectorVars, storeVars, pipelineVars, feedVars, historyVars>>

\* acquireLock: tryLock creates the file
AcquireLock(c) ==
  /\ lpc[c].at = "acquireLock"
  /\ historyLock = NoLock
  /\ historyLock' = CreateLock(c)
  /\ lpc' = [lpc EXCEPT ![c].at = "download"]
  /\ lockActor' = <<c>>
  /\ UNCHANGED rssLock
  /\ UNCHANGED <<taskVars, cacheVars, pageVars, chain, collectorVars, storeVars, pipelineVars, feedVars, historyVars>>

\* acquireLock: tryLock finds the file after the timeout and rejects; the
\* catch block of updateProcessingHistory runs
AcquireLockTimeout(c) ==
  /\ lpc[c].at = "acquireLock"
  /\ historyLock # NoLock
  /\ historyLock' = CatchRelease(historyLock)
  /\ lpc' = [lpc EXCEPT ![c] = HistoryThrown(c, "Could not acquire lock")]
  /\ lockActor' = <<c>>
  /\ UNCHANGED rssLock
  /\ UNCHANGED <<taskVars, cacheVars, pageVars, chain, collectorVars, storeVars, pipelineVars, feedVars, historyVars>>

\* the history is downloaded (or started fresh) and the record appended
DownloadHistory(c) ==
  /\ lpc[c].at = "download"
  /\ lpc' = [lpc EXCEPT ![c].at = "upload"]
  /\ lockActor' = <<c>>
  /\ UNCHANGED <<historyLock, rssLock>>
  /\ UNCHANGED <<taskVars, cacheVars, pageVars, chain, collectorVars, storeVars, pipelineVars, feedVars, historyVars>>

\* mkdirSync, the archive upload, writeFileSync, the upload or unlinkSync
\* throws: the catch block of updateProcessingHistory runs
HistoryFailure(c) ==
  /\ lpc[c].at \in {"download", "upload"}
  /\ historyLock' = CatchRelease(historyLock)
  /\ lpc' = [lpc EXCEPT ![c] = HistoryThrown(c, "history update failed")]
  /\ lockActor' = <<c>>
  /\ UNCHANGED rssLock
  /\ UNCHANGED <<taskVars, cacheVars, pageVars, chain, collectorVars, storeVars, pipelineVars, feedVars, historyVars>>

\* the history is uploaded and releaseLock() is called; without a file
\* unlink rejects, the catch block finds no file and the error is thrown
UploadHistory(c) ==
  /\ lpc[c].at = "upload"
  /\ historyLock' = ReleaseLock(historyLock)
  /\ lpc' = [lpc EXCEPT ![c] = IF historyLock # NoLock
                                 THEN HistoryReturned(c)
                                 ELSE HistoryThrown(c, "ENOENT")]
  /\ lockActor' = <<c>>
  /\ UNCHANGED rssLock
  /\ UNCHANGED <<taskVars, cacheVars, pageVars, chain, collectorVars, storeVars, pipelineVars, feedVars, historyVars>>

\* foundEvents && options.updateFeed !== false is false: the run returns
NoFeedUpdate(c) ==
  /\ lpc[c].at = "recorded"
  /\ lpc' = [lpc EXCEPT ![c].at = "returned"]
  /\ lockActor' = <<c>>
  /\ UNCHANGED <<historyLock, rssLock>>
  /\ UNCHANGED <<taskVars, cacheVars, pageVars, chain, collectorVars, storeVars, pipelineVars, feedVars, historyVars>>

\* foundEvents && options.updateFeed !== false: await acquireRSSLock()
CallAcquireRSSLock(c) ==
  /\ lpc[c].at = "recorded"
  /\ lpc' = [lpc EXCEPT ![c].at = "acquireRSSLock"]
  /\ lockActor' = <<c>>
  /\ UNCHANGED <<historyLock, rssLock>>
  /\ UNCHANGED <<taskVars, cacheVars, pageVars, chain, collectorVars, storeVars, pipelineVars, feedVars, historyVars>>

AcquireRSSLock(c) ==
  /\ lpc[c].at = "acquireRSSLock"
  /\ rssLock = NoLock
  /\ rssLock' = CreateLock(c)
  /\ lpc' = [lpc EXCEPT ![c].at = "addEventToRSS"]
  /\ lockActor' = <<c>>
  /\ UNCHANGED historyLock
  /\ UNCHANGED <<taskVars, cacheVars, pageVars, chain, collectorVars, storeVars, pipelineVars, feedVars, historyVars>>

\* acquireRSSLock rejects outside the try block of the feed update: the run
\* enters its catch block
AcquireRSSLockTimeout(c) ==
  /\ lpc[c].at = "acquireRSSLock"
  /\ rssLock # NoLock
  /\ lpc' = [lpc EXCEPT ![c] = At("acquireLock", TRUE, <<"Could not acquire RSS lock">>)]
  /\ lockActor' = <<c>>
  /\ UNCHANGED <<historyLock, rssLock>>
  /\ UNCHANGED <<taskVars, cacheVars, pageVars, chain, collectorVars, storeVars, pipelineVars, feedVars, historyVars>>

\* the loop over the events has called addEventToRSS for each of them
AddEventsToRSS(c) ==
  /\ lpc[c].at = "addEventToRSS"
  /\ lpc' = [lpc EXCEPT ![c].at = "updateRSSFeed"]
  /\ lockActor' = <<c>>
  /\ UNCHANGED <<historyLock, rssLock>>
  /\ UNCHANGED <<taskVars, cacheVars, pageVars, chain, collectorVars, storeVars, pipelineVars, feedVars, historyVars>>

\* the download of initialize(), addEvent, the archive upload or upload
\* throws: the finally block runs and the run enters its catch block
FeedUpdateFailure(c) ==
  /\ lpc[c].at \in {"addEventToRSS", "updateRSSFeed"}
  /\ rssLock' = FinallyRelease(rssLock)
  /\ lpc' = [lpc EXCEPT ![c] = At("acquireLock", TRUE, <<"feed update failed">>)]
  /\ lockActor' = <<c>>
  /\ UNCHANGED historyLock
  /\ UNCHANGED <<taskVars, cacheVars, pageVars, chain, collectorVars, storeVars, pipelineVars, feedVars, historyVars>>

\* updateRSSFeed has returned: the finally block runs and the run returns
FeedUpdateDone(c) ==
  /\ lpc[c].at = "updateRSSFeed"
  /\ rssLock' = FinallyRelease(rssLock)
  /\ lpc' = [lpc EXCEPT ![c].at = "returned"]
  /\ lockActor' = <<c>>
  /\ UNCHANGED historyLock
  /\ UNCHANGED <<taskVars, cacheVars, pageVars, chain, collectorVars, storeVars, pipelineVars, feedVars, historyVars>>

\* the process of a caller that has created a lock file and not removed it
\* is killed
Crash(c) ==
  /\ lpc[c].at \in {"download", "upload", "addEventToRSS", "updateRSSFeed"}
  /\ lpc' = [lpc EXCEPT ![c].at = "crashed"]
  /\ lockActor' = <<c>>
  /\ UNCHANGED <<historyLock, rssLock>>
  /\ UNCHANGED <<taskVars, cacheVars, pageVars, chain, collectorVars, storeVars, pipelineVars, feedVars, historyVars>>

InitLock ==
  /\ historyLock = NoLock
  /\ rssLock = NoLock
  /\ lpc = [c \in Callers |-> At("start", FALSE, NoError)]
  /\ lockActor = <<>>

(***************************************************************************)
(* The processing history.  A record is the number of its run.  The        *)
(* thresholds are scaled: ARCHIVE_THRESHOLD is 1000, the number of records *)
(* kept is 100 and MIN_TIME_BETWEEN_ARCHIVES is ten minutes in the source.  *)
(***************************************************************************)
ARCHIVE_THRESHOLD == 3

HISTORY_KEPT == 2

MIN_TIME_BETWEEN_ARCHIVES == 2

MaxRecords == 6

MaxTime == 4

NoBlob == <<>>

\* what the try block around downloadFromGCS and JSON.parse ends with
DownloadOutcomes == {"loaded", "absent", "unreadable"}

\* history blobs a download can end with: the key is absent, or it exists
\* and the download or the parse succeeds or throws
CanEndWith(blob, download) ==
  IF blob = NoBlob THEN download = "absent" ELSE download \in {"loaded", "unreadable"}

\* { records: [], lastArchiveTimestamp: null }
FreshHistory == [records |-> <<>>, lastArchiveTimestamp |-> <<>>]

\* the history the read-modify-write starts from
LoadHistory(blob, download) == IF download = "loaded" THEN blob[1] ELSE FreshHistory

ShouldArchiveAnyTime(history, time) == Len(history.records) >= ARCHIVE_THRESHOLD

\* shouldArchive, with lastArchiveTime 0 for no timestamp
ShouldArchive(history, time) ==
  /\ Len(history.records) >= ARCHIVE_THRESHOLD
  /\ IF history.lastArchiveTimestamp = <<>>
       THEN TRUE
       ELSE time - history.lastArchiveTimestamp[1] >= MIN_TIME_BETWEEN_ARCHIVES

\* history.records.slice(0, history.records.length - 100)
RecordsToArchive(records) == SubSeq(records, 1, Len(records) - HISTORY_KEPT)

\* history.records.slice(-100)
NewestRecords(records) ==
  IF Len(records) <= HISTORY_KEPT
    THEN records
    ELSE SubSeq(records, Len(records) - HISTORY_KEPT + 1, Len(records))

\* how the writes of the call end
HistoryUploadOutcomes == {"uploaded", "archive upload failed", "upload failed"}

\* updateProcessingHistory(newRecord) under the history lock
UpdateProcessingHistory ==
  /\ recordCount < MaxRecords
  /\ recordCount' = recordCount + 1
  /\ \E download \in DownloadOutcomes, upload \in HistoryUploadOutcomes :
       LET loaded == LoadHistory(historyBlob, download)
           pushed == [loaded EXCEPT !.records = Append(@, recordCount + 1)]
           archiving == ShouldArchive(pushed, clock)
           path == clock
           written == IF archiving
                        THEN [records |-> NewestRecords(pushed.records),
                              lastArchiveTimestamp |-> <<clock>>]
                        ELSE pushed
       IN /\ CanEndWith(historyBlob, download)
          /\ upload = "archive upload failed" => archiving
          /\ historyArchives' =
               IF archiving /\ upload # "archive upload failed"
                 THEN { a \in historyArchives : a.path # path }
                        \cup {[path |-> path, records |-> RecordsToArchive(pushed.records)]}
                 ELSE historyArchives
          /\ historyBlob' = IF upload = "uploaded" THEN <<written>> ELSE historyBlob
          /\ lastHistory' = <<[record |-> recordCount + 1,
                               download |-> download,
                               upload |-> upload,
                               pushed |-> pushed,
                               time |-> clock,
                               blobBefore |-> historyBlob,
                               archivesBefore |-> historyArchives]>>
  /\ UNCHANGED clock
  /\ UNCHANGED <<taskVars, cacheVars, pageVars, chain, collectorVars, storeVars, pipelineVars, feedVars, lockVars>>

\* time passes between two calls
TimePasses ==
  /\ clock < MaxTime
  /\ clock' = clock + 1
  /\ UNCHANGED <<historyBlob, historyArchives, recordCount, lastHistory>>
  /\ UNCHANGED <<taskVars, cacheVars, pageVars, chain, collectorVars, storeVars, pipelineVars, feedVars, lockVars>>

InitHistory ==
  /\ historyBlob = NoBlob
  /\ historyArchives = {}
  /\ clock = 1
  /\ recordCount = 0
  /\ lastHistory = NoCall

(***************************************************************************)
(* The log source adapter.  The endpoint answers the bulk request without  *)
(* cursor with its first page and the request with the cursor of page i     *)
(* with page i + 1; a page is an array of logs, or an object with or        *)
(* without a logs field; an object page that is not the last has a cursor.  *)
(* The raw log k of page i is the number 10 * i + k.                        *)
(***************************************************************************)
MaxPages == 3

NoPageKey == <<>>

PageShapes == {"array", "object", "object without logs"}

PagesOf(n) ==
  [1..n -> [shape : PageShapes, count : 1..2]]

Providers ==
  { [pages |-> pages, failAt |-> f, standard |-> std] :
      pages \in UNION { PagesOf(n) : n \in 1..MaxPages },
      f \in 0..MaxPages,
      std \in {"throws", "no logs", "logs"} }

Filters ==
  { [address |-> "a", fromBlock |-> 10, toBlock |-> 20],
    [address |-> "a", fromBlock |-> 16, toBlock |-> 255] }

\* ethers.toBeHex of a block number below 256: two hex digits
ToHexBlock(block) == <<"0x", block \div 16, block % 16>>

\* buildRpcFilter
BuildRpcFilter(f) ==
  [address |-> f.address,
   fromBlock |-> ToHexBlock(f.fromBlock),
   toBlock |-> ToHexBlock(f.toBlock)]

MakeRequestWithoutPage(rpcFilter, page) ==
  [method |-> "alchemy_getLogs", filter |-> rpcFilter, pageKey |-> NoPageKey]

\* makeRequest(page): the filter, with the page key when there is one
MakeRequest(rpcFilter, page) ==
  [method |-> "alchemy_getLogs", filter |-> rpcFilter, pageKey |-> page]

\* the page the endpoint answers a bulk request with
PageFor(request) ==
  IF request.pageKey = NoPageKey THEN 1 ELSE request.pageKey[1].cursor

\* the logs a response carries
LogsOfPage(i) ==
  IF provider.pages[i].shape = "object without logs"
    THEN <<>>
    ELSE [k \in 1..provider.pages[i].count |-> 10 * i + k]

\* response?.pageKey
PageKeyOfPage(i) ==
  IF provider.pages[i].shape # "array" /\ i < Len(provider.pages)
    THEN <<[cursor |-> i + 1]>>
    ELSE NoPageKey

\* provider.getLogs(filter)
StandardLogs == IF provider.standard = "logs" THEN <<91, 92>> ELSE <<>>

\* break after an array response, else while (pageKey)
Continue(i) == provider.pages[i].shape # "array" /\ PageKeyOfPage(i) # NoPageKey

\* one turn of the do-while loop whose request is answered
BulkRequest ==
  /\ gpc = "requesting"
  /\ Len(requests) + 1 # provider.failAt
  /\ LET request == MakeRequest(BuildRpcFilter(filter), pageKey)
         i == PageFor(request)
     IN /\ requests' = Append(requests, request)
        /\ logs' = logs \o LogsOfPage(i)
        /\ pageKey' = IF provider.pages[i].shape = "array"
                        THEN pageKey
                        ELSE PageKeyOfPage(i)
        /\ IF Continue(i)
             THEN /\ gpc' = "requesting"
                  /\ result' = result
             ELSE /\ gpc' = "returned"
                  /\ result' = <<logs \o LogsOfPage(i)>>
  /\ UNCHANGED <<provider, filter>>
  /\ UNCHANGED <<taskVars, cacheVars, chain, collectorVars, storeVars, pipelineVars, feedVars, lockVars,
                 historyVars>>

FallbackAppends(accumulated, standard) == accumulated \o standard

\* what the catch block returns
Fallback(accumulated, standard) == standard

\* a bulk request throws: the catch block calls provider.getLogs(filter) and
\* returns what it returns, or throws what it throws
BulkRequestThrows ==
  /\ gpc = "requesting"
  /\ Len(requests) + 1 = provider.failAt
  /\ requests' = requests
                   \o <<MakeRequest(BuildRpcFilter(filter), pageKey),
                        [method |-> "eth_getLogs", filter |-> filter, pageKey |-> NoPageKey]>>
  /\ IF provider.standard = "throws"
       THEN /\ gpc' = "thrown"
            /\ result' = result
       ELSE /\ gpc' = "returned"
            /\ result' = <<Fallback(logs, StandardLogs)>>
  /\ UNCHANGED <<provider, filter, logs, pageKey>>
  /\ UNCHANGED <<taskVars, cacheVars, chain, collectorVars, storeVars, pipelineVars, feedVars, lockVars,
                 historyVars>>

InitPage ==
  /\ provider = [pages |-> <<[shape |-> "array", count |-> 1]>>,
                 failAt |-> 0, standard |-> "no logs"]
  /\ filter = [address |-> "a", fromBlock |-> 10, toBlock |-> 20]
  /\ gpc = "requesting"
  /\ logs = <<>>
  /\ pageKey = NoPageKey
  /\ requests = <<>>
  /\ result = <<>>

(***************************************************************************)
(* The block timestamp cache (shared/blockCache.ts).  The Map is the       *)
(* sequence of its values in insertion order.  The bound of 10000 entries  *)
(* is scaled to 10, the week an entry stays valid to 3 units of the cache  *)
(* clock and the save to disk at every hundredth size to every fifth: one  *)
(* tenth of the bound is then one entry.                                   *)
(***************************************************************************)
maxEntries == 10
maxAge == 3
SaveEvery == 5
MaxCacheBlock == 11
MaxCacheTime == 3
MaxSets == 2

CacheEntry(b, t, c) == [blockNumber |-> b, timestamp |-> t, cached |-> c]

\* The timestamp the chain reports for a block, and the value
\* monitorEventsInRange passes when it has none (the time of the call).
BlockTimestamp(b) == 100 + b
TimestampsFor(b, time) == {BlockTimestamp(b), 900 + time}

MapHas(m, b) == \E i \in 1..Len(m) : m[i].blockNumber = b

MapGet(m, b) == m[CHOOSE i \in 1..Len(m) : m[i].blockNumber = b]

\* Map.set: a known key keeps its place, a new one goes last
MapSet(m, e) ==
  IF MapHas(m, e.blockNumber)
  THEN [i \in 1..Len(m) |->
          IF m[i].blockNumber = e.blockNumber THEN e ELSE m[i]]
  ELSE Append(m, e)

MapDelete(m, b) == SelectSeq(m, LAMBDA x : x.blockNumber # b)

RECURSIVE CachedUpTo(_, _)
CachedUpTo(m, c) ==
  IF c < 0 THEN <<>>
  ELSE CachedUpTo(m, c - 1) \o SelectSeq(m, LAMBDA x : x.cached = c)

InsertionOrder(m) == m

\* sort((a, b) => a.cached - b.cached): ascending and stable
SortedByCached(m) == CachedUpTo(m, MaxCacheTime)

Slice(s, k) == SubSeq(s, 1, IF k < Len(s) THEN k ELSE Len(s))

ToDelete(m) == Slice(SortedByCached(m), maxEntries \div 10)

RECURSIVE DeleteAll(_, _)
DeleteAll(m, toDelete) ==
  IF toDelete = <<>> THEN m
  ELSE DeleteAll(MapDelete(m, Head(toDelete).blockNumber), Tail(toDelete))

Cleanup(m) == IF Len(m) > maxEntries THEN DeleteAll(m, ToDelete(m)) ELSE m

\* get: <<timestamp>>, or <<>> for null
CacheGet(m, b, time) ==
  IF MapHas(m, b) /\ time - MapGet(m, b).cached < maxAge
  THEN <<MapGet(m, b).timestamp>>
  ELSE <<>>

\* loadFromDisk: the entries of the file that have not expired
LoadFromDisk(file, time) ==
  SelectSeq(file, LAMBDA x : time - x.cached < maxAge)

\* The files an earlier process can have left, empty or about full: blocks
\* 1..n, cached at time 0 up to a place and at time 1 from there on, or the
\* other way round.
CacheFiles ==
  { [i \in 1..n |->
       CacheEntry(i, BlockTimestamp(i),
                  IF (i <= k) = late THEN 1 ELSE 0)] :
    n \in {0, maxEntries - 1, maxEntries}, k \in 0..maxEntries,
    late \in BOOLEAN }

CacheSet(b, t) ==
  /\ setCalls < MaxSets
  /\ LET afterSet == MapSet(blockCache, CacheEntry(b, t, cacheClock))
         after    == Cleanup(afterSet)
     IN /\ blockCache' = after
        /\ cacheFile' = IF Len(after) % SaveEvery = 0 THEN after ELSE cacheFile
        /\ lastSet' = <<[blockNumber |-> b, timestamp |-> t,
                         time |-> cacheClock, afterSet |-> afterSet]>>
  /\ setCalls' = setCalls + 1
  /\ UNCHANGED cacheClock
  /\ UNCHANGED <<taskVars, chain, collectorVars, storeVars, pipelineVars, feedVars,
                 lockVars, historyVars, pageVars>>

\* The blocks set: the first two and the last one a full file holds, and
\* one that no file holds.
SetBlocks == {1, 2, MaxCacheBlock - 1, MaxCacheBlock}

Set ==
  \E b \in SetBlocks :
    \E t \in TimestampsFor(b, cacheClock) : CacheSet(b, t)

CacheTimePasses ==
  /\ cacheClock < MaxCacheTime
  /\ cacheClock' = cacheClock + 1
  /\ UNCHANGED <<blockCache, cacheFile, setCalls, lastSet>>
  /\ UNCHANGED <<taskVars, chain, collectorVars, storeVars, pipelineVars, feedVars,
                 lockVars, historyVars, pageVars>>

InitCache ==
  /\ blockCache = <<>>
  /\ cacheFile = <<>>
  /\ cacheClock = 1
  /\ setCalls = 0
  /\ lastSet = <<>>

(***************************************************************************)
(* processLatestBlocks (processBlockRange.ts:377-479): the two pipelines   *)
(* started together and awaited with Promise.all.  Each pipeline is one    *)
(* processBlockRangeForNetwork; what its collector returns or throws is an *)
(* input here.  A pipeline runs from one await to the next without the     *)
(* other one taking a step, and updateState has no await.                  *)
(***************************************************************************)
DefaultState(current) ==
  [EmptyState EXCEPT !.lastProcessedBlock = <<current - 100>>,
                     !.hasError = <<FALSE>>]

\* the stateData the run starts from when no state file was there
DefaultStateData(heads) ==
  [n \in StateKeys |->
     IF n \in PipelineNetworks THEN <<DefaultState(heads[n])>> ELSE <<>>]

\* a state file earlier runs have left: a gap on one network, and the
\* record of the catch-up script
EarlierStateData ==
  [n \in StateKeys |->
     IF n = "Ethereum Mainnet"
       THEN <<[EmptyState EXCEPT
                 !.lastProcessedBlock = <<MaxStart>>,
                 !.hasError = <<TRUE>>,
                 !.lastError = <<"rate limited">>,
                 !.consecutiveFailures = <<1>>,
                 !.apiCallCount = <<1>>,
                 !.failedSegments =
                    << <<[from |-> 0, to |-> 0, error |-> "rate limited"]>> >>]>>
     ELSE IF n = "ZKsync Network"
       THEN <<[EmptyState EXCEPT !.lastProcessedBlock = <<MaxStart>>,
                                 !.hasError = <<FALSE>>]>>
     ELSE <<>>]

\* (stateData[network]?.lastProcessedBlock ?? currentBlock - 100) + 1
TaskStartBlock(n) ==
  IF stateData[n] # <<>> /\ stateData[n][1].lastProcessedBlock # <<>>
    THEN stateData[n][1].lastProcessedBlock[1] + 1
    ELSE headBlocks[n] - 100 + 1

\* what the collector of a pipeline can return: nothing abandoned, or the
\* first block of the range abandoned
CollectorResults(n) ==
  { [failedSegments |-> <<>>, apiCalls |-> 1],
    [failedSegments |->
       <<[from |-> TaskStartBlock(n), to |-> TaskStartBlock(n),
          error |-> "rate limited"]>>,
     apiCalls |-> 1] }

\* the state written once the collector has returned
TaskSuccessState(n, res) ==
  [lastProcessedBlock |-> <<headBlocks[n]>>,
   hasError |-> <<Len(res.failedSegments) > 0>>,
   lastError |-> IF res.failedSegments = <<>>
                   THEN <<>> ELSE <<res.failedSegments[1].error>>,
   consecutiveFailures |-> <<Len(res.failedSegments)>>,
   apiCallCount |-> <<res.apiCalls>>,
   failedSegments |-> <<res.failedSegments>>]

\* the state written by the catch block; record.errors has one entry for
\* every abandoned segment, or the one the catch block pushes
TaskErrorState(message, errors) ==
  [hasError |-> <<TRUE>>,
   lastError |-> <<message>>,
   consecutiveFailures |-> <<IF errors = 0 THEN 1 ELSE errors>>]

TaskUpdateState(n, state) ==
  /\ UpdateState(n, state)
  /\ lastRecords' = [lastRecords EXCEPT ![n] = stateFile'[n]]

Running == mainPc \in {"awaiting", "uploading"}

TaskUnchanged ==
  /\ UNCHANGED <<mainPc, stateData, headBlocks, uploadContent, stateBlob>>
  /\ UNCHANGED <<chain, collectorVars, pipelineVars, feedVars, lockVars,
                 historyVars, pageVars, cacheVars>>

\* the collector returned: the state write, then the history update starts
TaskCollected(n) ==
  /\ Running
  /\ tpc[n].at = "collecting"
  /\ \E res \in CollectorResults(n) :
       /\ TaskUpdateState(n, TaskSuccessState(n, res))
       /\ tpc' = [tpc EXCEPT ![n] = [at |-> "history",
                                     errors |-> Len(res.failedSegments)]]
  /\ TaskUnchanged

\* an await of the try block rejected: the catch block writes the error
\* state and starts the history update
TaskCaught(n, from, message) ==
  /\ Running
  /\ tpc[n].at = from
  /\ TaskUpdateState(n, TaskErrorState(message, tpc[n].errors))
  /\ tpc' = [tpc EXCEPT ![n].at = "catch history"]
  /\ TaskUnchanged

TaskCollectThrew(n) == TaskCaught(n, "collecting", "missing event signature")

TaskHistoryFailed(n) == TaskCaught(n, "history", "Could not acquire lock")

TaskFeedFailed(n) == TaskCaught(n, "feed", "Could not acquire RSS lock")

TaskStep(n, from, to) ==
  /\ Running
  /\ tpc[n].at = from
  /\ tpc' = [tpc EXCEPT ![n].at = to]
  /\ UNCHANGED <<storeVars, lastRecords>>
  /\ TaskUnchanged

\* updateProcessingHistory(record) resolved
TaskHistoryUpdated(n) == TaskStep(n, "history", "feed")

\* the feed update block ran through, or was not entered
TaskFeedUpdated(n) == TaskStep(n, "feed", "done")

\* the history update of the catch block settled: throw error
TaskRethrow(n) == TaskStep(n, "catch history", "failed")

\* Promise.all settled: resolved when both pipelines are done, rejected as
\* soon as one has failed.  uploadStateFile reads the file and starts the
\* upload.
UploadStateFileStart ==
  /\ mainPc = "awaiting"
  /\ \/ \A n \in PipelineNetworks : tpc[n].at = "done"
     \/ \E n \in PipelineNetworks : tpc[n].at = "failed"
  /\ mainPc' = "uploading"
  /\ uploadContent' = <<stateFile>>
  /\ UNCHANGED <<stateData, headBlocks, tpc, lastRecords, stateBlob, storeVars>>
  /\ UNCHANGED <<chain, collectorVars, pipelineVars, feedVars, lockVars,
                 historyVars, pageVars, cacheVars>>

\* uploadToGCS settled: on success the local file is removed; then the
\* process ends
UploadStateFileEnd(uploaded) ==
  /\ mainPc = "uploading"
  /\ mainPc' = "exited"
  /\ IF uploaded
       THEN /\ stateBlob' = uploadContent
            /\ stateFile' = [n \in StateKeys |-> <<>>]
       ELSE UNCHANGED <<stateBlob, stateFile>>
  /\ UNCHANGED <<stateData, headBlocks, tpc, lastRecords, uploadContent,
                 lastWrite>>
  /\ UNCHANGED <<chain, collectorVars, pipelineVars, feedVars, lockVars,
                 historyVars, pageVars, cacheVars>>

InitTasks ==
  /\ mainPc = "exited"
  /\ headBlocks = [n \in PipelineNetworks |-> MaxHead]
  /\ stateData = [n \in StateKeys |-> <<>>]
  /\ tpc = [n \in PipelineNetworks |-> [at |-> "done", errors |-> 0]]
  /\ lastRecords = [n \in PipelineNetworks |-> <<>>]
  /\ uploadContent = <<>>
  /\ stateBlob = NoBlob

(***************************************************************************)
(* The collector on its own: a first call over any range of the chain,     *)
(* and re-runs over the same range against the same log source.            *)
(***************************************************************************)
Collect ==
  /\ cpc = "idle"
  /\ \E s \in 0..MaxStart, e \in 0..MaxBlock : CollectStart(s, e)
  /\ UNCHANGED <<taskVars, cacheVars, pageVars, feedVars, lockVars, historyVars, chain, prevEvents, storeVars, pipelineVars>>

\* the result of a run that abandoned nothing is kept for comparison
Rerun ==
  /\ cpc = "returned"
  /\ prevEvents' = IF failedSegments = <<>>
                      THEN <<[events |-> collected, apiCalls |-> apiCalls]>>
                      ELSE prevEvents
  /\ CollectStart(startBlock, endBlock)
  /\ UNCHANGED <<taskVars, cacheVars, pageVars, feedVars, lockVars, historyVars, chain, storeVars, pipelineVars>>

InitCollector ==
  /\ cpc = "idle"
  /\ startBlock = 0
  /\ endBlock = 0
  /\ segments = <<>>
  /\ segment = NoSegment
  /\ collected = <<>>
  /\ apiCalls = 0
  /\ failedSegments = <<>>
  /\ recordErrors = <<>>
  /\ sleepMs = 0
  /\ prevEvents = <<>>

Init ==
  /\ chain \in Chains
  /\ InitCollector
  /\ InitStore
  /\ InitPipeline
  /\ runs = 0
  /\ InitFeed
  /\ InitLock
  /\ InitHistory
  /\ InitPage
  /\ InitCache
  /\ InitTasks

Next ==
  \/ Collect
  \/ Rerun
  \/ LoopHead
  \/ FetchSuccess
  \/ \E err \in ErrorMessages : FetchFail(err)
  \/ WakePacing
  \/ WakeBackoff

Spec == Init /\ [][Next]_vars

\* every await of the collector settles: the timers fire and the log source
\* answers or fails
FairSpec ==
  /\ Spec
  /\ WF_vars(LoopHead)
  /\ WF_vars(FetchSuccess \/ \E err \in ErrorMessages : FetchFail(err))
  /\ WF_vars(WakePacing)
  /\ WF_vars(WakeBackoff)

(***************************************************************************)
(* The collector against a log source that rejects every request wider     *)
(* than a limit and answers every other one: the range [1000,1099] with    *)
(* the limit 20.  The chain has two logs, the hashes out of order, in any  *)
(* of the blocks at the ends of the range and of the segments.             *)
(***************************************************************************)
Scenario == [startBlock |-> 1000, endBlock |-> 1099, limit |-> 20]

ScenarioBlocks == {1000, 1012, 1013, 1024, 1025, 1049, 1050, 1099}

ScenarioFullChain ==
  << Log(1000, <<11, 1>>, 0), Log(1000, <<10, 0>>, 1),
     Log(1012, <<11, 1>>, 0), Log(1012, <<10, 0>>, 1),
     Log(1013, <<11, 1>>, 0), Log(1013, <<10, 0>>, 1),
     Log(1024, <<11, 1>>, 0), Log(1024, <<10, 0>>, 1),
     Log(1025, <<11, 1>>, 0), Log(1025, <<10, 0>>, 1),
     Log(1049, <<11, 1>>, 0), Log(1049, <<10, 0>>, 1),
     Log(1050, <<11, 1>>, 0), Log(1050, <<10, 0>>, 1),
     Log(1099, <<11, 1>>, 0), Log(1099, <<10, 0>>, 1) >>

ScenarioChains ==
  { SelectSeq(ScenarioFullChain, LAMBDA l : l.blocknumber \in blocks) :
      blocks \in SUBSET ScenarioBlocks }

ScenarioCollect ==
  /\ cpc = "idle"
  /\ CollectStart(Scenario.startBlock, Scenario.endBlock)
  /\ UNCHANGED <<taskVars, cacheVars, pageVars, feedVars, lockVars, historyVars, chain, prevEvents, storeVars, pipelineVars>>

\* the log source of the scenario
ScenarioFetch ==
  IF segment.to - segment.from > Scenario.limit
    THEN FetchFail("rate limited")
    ELSE FetchSuccess

ScenarioInit ==
  /\ chain \in ScenarioChains
  /\ InitCollector
  /\ InitStore
  /\ InitPipeline
  /\ runs = 0
  /\ InitFeed
  /\ InitLock
  /\ InitHistory
  /\ InitPage
  /\ InitCache
  /\ InitTasks

ScenarioNext ==
  \/ ScenarioCollect
  \/ LoopHead
  \/ ScenarioFetch
  \/ WakePacing

ScenarioSpec == ScenarioInit /\ [][ScenarioNext]_vars

(***************************************************************************)
(* Processing runs one after the other against one chain and one state     *)
(* file.                                                                   *)
(***************************************************************************)
PipelineInit ==
  /\ chain = PipelineChain
  /\ InitCollector
  /\ InitStore
  /\ InitPipeline
  /\ runs = 0
  /\ InitFeed
  /\ InitLock
  /\ InitHistory
  /\ InitPage
  /\ InitCache
  /\ InitTasks

PipelineNext ==
  \/ ProcessSpecificBlockRanges
  \/ ProcessLatestBlocks
  \/ CatchupBlockRange
  \/ LoopHead
  \/ FetchSuccess
  \/ \E err \in ErrorMessages : FetchFail(err)
  \/ WakePacing
  \/ WakeBackoff
  \/ AfterCollect
  \/ HistoryUpdated
  \/ HistoryFailed
  \/ FeedUpdated
  \/ FeedFailed
  \/ CatchBlock

PipelineSpec == PipelineInit /\ [][PipelineNext]_vars

(***************************************************************************)
(* The last run of such a sequence, started on a state file that earlier   *)
(* runs have left in durable storage.                                      *)
(***************************************************************************)
\* left by a run over [0, MaxHead - 1] that fetched the range at once
CleanState ==
  [lastProcessedBlock |-> <<MaxHead - 1>>,
   hasError |-> <<FALSE>>,
   lastError |-> <<>>,
   retryCount |-> <<>>,
   consecutiveFailures |-> <<0>>,
   apiCallCount |-> <<1>>,
   failedSegments |-> << <<>> >>]

\* left by a run over [0, 11] that gave up on both halves
GapState ==
  [lastProcessedBlock |-> <<11>>,
   hasError |-> <<TRUE>>,
   lastError |-> <<"rate limited">>,
   retryCount |-> <<>>,
   consecutiveFailures |-> <<2>>,
   apiCallCount |-> <<0>>,
   failedSegments |->
     << << [from |-> 0, to |-> 5, error |-> "rate limited"],
           [from |-> 6, to |-> 11, error |-> "missing event signature"] >> >>]

PriorStateFiles ==
  { [n \in StateKeys |-> <<>>],
    [n \in StateKeys |-> IF n = "ZKSync" THEN <<CleanState>> ELSE <<>>],
    [n \in StateKeys |-> IF n = "ZKSync" THEN <<GapState>> ELSE <<>>] }

LastRunInit ==
  /\ chain = PipelineChain
  /\ InitCollector
  /\ stateFile \in PriorStateFiles
  /\ lastWrite = <<>>
  /\ InitPipeline
  /\ runs = MaxRuns - 1
  /\ InitFeed
  /\ InitLock
  /\ InitHistory
  /\ InitPage
  /\ InitCache
  /\ InitTasks

LastRunSpec == LastRunInit /\ [][PipelineNext]_vars

(***************************************************************************)
(* The feed manager on its own: the calls of one process after the other.  *)
(***************************************************************************)
FeedInit ==
  /\ chain = PipelineChain
  /\ InitCollector
  /\ InitStore
  /\ InitPipeline
  /\ runs = 0
  /\ InitFeed
  /\ InitLock
  /\ InitHistory
  /\ InitPage
  /\ InitCache
  /\ InitTasks

FeedNext ==
  \/ Initialize
  \/ InitializeFailed
  \/ \E event \in FeedEvents : AddEvent(event)
  \/ UpdateRSSFeed
  \/ ArchiveFailed
  \/ Restart

FeedSpec == FeedInit /\ [][FeedNext]_vars

(***************************************************************************)
(* The callers of the locks on their own.                                   *)
(***************************************************************************)
LockInit ==
  /\ chain = PipelineChain
  /\ InitCollector
  /\ InitStore
  /\ InitPipeline
  /\ runs = 0
  /\ InitFeed
  /\ InitLock
  /\ InitHistory
  /\ InitPage
  /\ InitCache
  /\ InitTasks

LockNext ==
  \E c \in Callers :
    \/ CallUpdateProcessingHistory(c)
    \/ AcquireLock(c)
    \/ AcquireLockTimeout(c)
    \/ DownloadHistory(c)
    \/ HistoryFailure(c)
    \/ UploadHistory(c)
    \/ NoFeedUpdate(c)
    \/ CallAcquireRSSLock(c)
    \/ AcquireRSSLock(c)
    \/ AcquireRSSLockTimeout(c)
    \/ AddEventsToRSS(c)
    \/ FeedUpdateFailure(c)
    \/ FeedUpdateDone(c)
    \/ Crash(c)

LockSpec == LockInit /\ [][LockNext]_vars

(***************************************************************************)
(* The processing history on its own: one call after the other.            *)
(***************************************************************************)
HistoryInit ==
  /\ chain = PipelineChain
  /\ InitCollector
  /\ InitStore
  /\ InitPipeline
  /\ runs = 0
  /\ InitFeed
  /\ InitLock
  /\ InitHistory
  /\ InitPage
  /\ InitCache
  /\ InitTasks

HistoryNext == UpdateProcessingHistory \/ TimePasses

HistorySpec == HistoryInit /\ [][HistoryNext]_vars

(***************************************************************************)
(* getLogsWithPagination on its own: one call against any endpoint.         *)
(***************************************************************************)
PageInit ==
  /\ chain = PipelineChain
  /\ InitCollector
  /\ InitStore
  /\ InitPipeline
  /\ runs = 0
  /\ InitFeed
  /\ InitLock
  /\ InitHistory
  /\ InitCache
  /\ InitTasks
  /\ provider \in Providers
  /\ filter \in Filters
  /\ gpc = "requesting"
  /\ logs = <<>>
  /\ pageKey = NoPageKey
  /\ requests = <<>>
  /\ result = <<>>

PageNext == BulkRequest \/ BulkRequestThrows

PageSpec == PageInit /\ [][PageNext]_vars

(***************************************************************************)
(* The block timestamp cache on its own: a process that loads the file an  *)
(* earlier process left and then calls set, time passing in between.       *)
(***************************************************************************)
CacheInit ==
  /\ chain = PipelineChain
  /\ InitCollector
  /\ InitStore
  /\ InitPipeline
  /\ runs = 0
  /\ InitFeed
  /\ InitLock
  /\ InitHistory
  /\ InitPage
  /\ InitTasks
  /\ cacheClock \in {1, maxAge}
  /\ cacheFile \in CacheFiles
  /\ blockCache = LoadFromDisk(cacheFile, cacheClock)
  /\ setCalls = 0
  /\ lastSet = <<>>

CacheNext == Set \/ CacheTimePasses

CacheSpec == CacheInit /\ [][CacheNext]_vars

(***************************************************************************)
(* The two pipelines of processLatestBlocks on their own, from the moment  *)
(* both are started: on the file the run has just created, on a file of    *)
(* earlier runs, or on a file that did not parse.                          *)
(***************************************************************************)
TaskInit ==
  /\ chain = PipelineChain
  /\ InitCollector
  /\ InitPipeline
  /\ runs = 0
  /\ InitFeed
  /\ InitLock
  /\ InitHistory
  /\ InitPage
  /\ InitCache
  /\ mainPc = "awaiting"
  /\ headBlocks \in [PipelineNetworks -> (MaxHead - 1)..MaxHead]
  /\ \/ /\ stateData = DefaultStateData(headBlocks)
        /\ stateFile \in {stateData, [n \in StateKeys |-> <<>>]}
     \/ /\ stateData = EarlierStateData
        /\ stateFile = stateData
  /\ lastWrite = <<>>
  /\ tpc = [n \in PipelineNetworks |-> [at |-> "collecting", errors |-> 0]]
  /\ lastRecords = [n \in PipelineNetworks |-> <<>>]
  /\ uploadContent = <<>>
  /\ stateBlob = NoBlob

TaskNext ==
  \/ \E n \in PipelineNetworks :
       \/ TaskCollected(n)
       \/ TaskCollectThrew(n)
       \/ TaskHistoryUpdated(n)
       \/ TaskHistoryFailed(n)
       \/ TaskFeedUpdated(n)
       \/ TaskFeedFailed(n)
       \/ TaskRethrow(n)
  \/ UploadStateFileStart
  \/ \E uploaded \in BOOLEAN : UploadStateFileEnd(uploaded)

TaskSpec == TaskInit /\ [][TaskNext]_vars

(***************************************************************************)
(* Properties of the collector.                                            *)
(***************************************************************************)
BlocksOf(seg) == seg.from .. seg.to

\* the step in which the catch block splits the failed segment
SplitStep == cpc = "fetching" /\ Len(segments') = Len(segments) + 2

\* C1: whenever a failed segment [from,to] is split, the children are
\* [from,mid] and [mid+1,to] with from <= mid < to: each has start <= end,
\* they are disjoint and their union is exactly [from,to].
C1_SplitIsPartition ==
  [][SplitStep =>
       LET left == segments'[1]
           right == segments'[2]
       IN /\ left.from = segment.from
          /\ right.to = segment.to
          /\ right.from = left.to + 1
          /\ segment.from <= left.to /\ left.to < segment.to
          /\ left.from <= left.to /\ right.from <= right.to
          /\ left.attempt = 0 /\ right.attempt = 0
          /\ BlocksOf(left) \cap BlocksOf(right) = {}
          /\ BlocksOf(left) \cup BlocksOf(right) = BlocksOf(segment)]_vars

\* a split has just happened: the popped segment's children head the work list
C1_Witness ==
  /\ cpc = "pacing"
  /\ Len(segments) >= 2
  /\ segment.to - segment.from > MIN_SEGMENT_SPAN
  /\ segments[1].from = segment.from
  /\ segments[2].to = segment.to

\* the step in which a fetch of a segment with no attempt left fails
ExhaustedFailStep ==
  /\ cpc = "fetching"
  /\ cpc' # "pacing" /\ cpc' # "backoff"
  /\ apiCalls' = apiCalls
  /\ segment.attempt >= MAX_SEGMENT_ATTEMPTS

\* C2: whatever fetches fail, the collector never throws; a segment whose
\* attempts are exhausted becomes exactly one {from,to,error} entry of
\* failedSegments and one entry of record.errors.
C2_FailuresAreRecordedNotThrown ==
  /\ [](/\ cpc # "threw"
        /\ Len(recordErrors) = Len(failedSegments)
        /\ \A i \in 1..Len(failedSegments) :
             /\ recordErrors[i].block = failedSegments[i].from
             /\ \A j \in 1..Len(failedSegments) :
                  (failedSegments[i].from = failedSegments[j].from
                   /\ failedSegments[i].to = failedSegments[j].to) => i = j)
  /\ [][ExhaustedFailStep =>
          /\ cpc' = "loop"
          /\ \E err \in ErrorMessages :
               /\ failedSegments' =
                    Append(failedSegments,
                           [from |-> segment.from, to |-> segment.to, error |-> err])
               /\ Len(recordErrors') = Len(recordErrors) + 1
               /\ recordErrors'[Len(recordErrors')].block = segment.from]_vars

\* a run that gave up on a segment has returned
C2_Witness ==
  /\ cpc = "returned"
  /\ failedSegments # <<>>
  /\ apiCalls > 0

\* C3: the returned events are ordered by block number ascending and, within
\* a block, by transaction hash.
C3_ReturnedEventsSorted ==
  cpc = "returned" =>
    \A i, j \in 1..Len(collected) :
      i < j =>
        \/ collected[i].blocknumber < collected[j].blocknumber
        \/ /\ collected[i].blocknumber = collected[j].blocknumber
           /\ LocaleCompare(collected[i].txhash, collected[j].txhash) <= 0

\* the returned list has two events of one block that the provider listed
\* in the other order
C3_Witness ==
  /\ cpc = "returned"
  /\ \E i, j \in 1..Len(collected) :
       /\ i < j
       /\ collected[i].blocknumber = collected[j].blocknumber
       /\ collected[i].logIndex > collected[j].logIndex

\* C4: two runs over the same range against the same log source that
\* abandon no segment return the same ordered list, whatever failed.
C4_RerunYieldsSameList ==
  (cpc = "returned" /\ failedSegments = <<>> /\ prevEvents # <<>>) =>
    collected = prevEvents[1].events

\* a run that was split returned after a run that fetched the range at once
C4_Witness ==
  /\ cpc = "returned"
  /\ failedSegments = <<>>
  /\ prevEvents # <<>>
  /\ prevEvents[1].apiCalls = 1
  /\ apiCalls >= 3
  /\ Len(collected) >= 3

\* C5: every call of the collector returns, with an empty work list,
\* whatever the log source does.
C5_CollectorReturns ==
  (cpc \in {"loop", "fetching", "pacing", "backoff"}) ~>
    (cpc = "returned" /\ segments = <<>>)

\* a run against a log source that failed on every call has returned
C5_Witness ==
  /\ cpc = "returned"
  /\ startBlock <= endBlock
  /\ apiCalls = 0
  /\ Len(failedSegments) >= 3

(***************************************************************************)
(* Properties of the state store and of the runs.                          *)
(***************************************************************************)
\* the failedSegments list of a state file entry, empty when there is none
StoredSegments(entry) ==
  IF entry = <<>> \/ entry[1].failedSegments = <<>>
    THEN <<>>
    ELSE entry[1].failedSegments[1]

KeysOf(list) == { SegmentKey(list[i]) : i \in 1..Len(list) }

EntriesOf(list) == { list[i] : i \in 1..Len(list) }

\* the lastProcessedBlock of a state file entry
WatermarkOf(entry) ==
  IF entry = <<>> THEN <<>> ELSE entry[1].lastProcessedBlock

\* C6: a write that supplies an empty failedSegments list empties the stored
\* list; one that supplies a non-empty list stores the entries of the old
\* list and of the supplied list, one per (from,to) pair; one that supplies
\* no failedSegments leaves the stored list as it was.
C6_FailedSegmentsMergeRule ==
  [][lastWrite' # lastWrite =>
       LET w == lastWrite'[1]
           old == StoredSegments(w.existing)
           new == StoredSegments(stateFile'[w.network])
       IN /\ w.existing = stateFile[w.network]
          /\ IF "failedSegments" \notin DOMAIN w.state
               THEN /\ new = old
                    /\ stateFile'[w.network][1].failedSegments =
                         Existing(stateFile, w.network).failedSegments
             ELSE IF w.state.failedSegments[1] = <<>>
               THEN stateFile'[w.network][1].failedSegments = << <<>> >>
             ELSE /\ KeysOf(new) = KeysOf(old) \cup KeysOf(w.state.failedSegments[1])
                  /\ EntriesOf(new) \subseteq
                       EntriesOf(old) \cup EntriesOf(w.state.failedSegments[1])
                  /\ \A i, j \in 1..Len(new) :
                       SegmentKey(new[i]) = SegmentKey(new[j]) => i = j]_vars

\* a write has supplied a failed segment the state file already listed, next
\* to another one it listed
C6_Witness ==
  /\ lastWrite # <<>>
  /\ "failedSegments" \in DOMAIN lastWrite[1].state
  /\ lastWrite[1].state.failedSegments[1] # <<>>
  /\ KeysOf(lastWrite[1].state.failedSegments[1])
       \cap KeysOf(StoredSegments(lastWrite[1].existing)) # {}
  /\ KeysOf(StoredSegments(lastWrite[1].existing))
       \ KeysOf(lastWrite[1].state.failedSegments[1]) # {}
  /\ Len(StoredSegments(stateFile[lastWrite[1].network])) =
       Len(StoredSegments(lastWrite[1].existing))

\* the run's range has no block of the segment with key k
OutsideRange(k) == k[2] < startBlock \/ endBlock < k[1]

\* C7: a failed segment the state file lists for a network is still listed
\* after every state write of a run on that network whose range does not
\* contain a block of the segment.
C7_FailedSegmentsKeptAcrossRuns ==
  [][(ppc = "collecting" \/ ppc = "catch") =>
       LET old == KeysOf(StoredSegments(stateFile[pNetwork]))
           new == KeysOf(StoredSegments(stateFile'[pNetwork]))
       IN \A k \in old : OutsideRange(k) => k \in new]_vars

\* C8: the lastProcessedBlock a network has in the state file never
\* decreases.
C8_WatermarkMonotonic ==
  [][\A n \in StateKeys :
       LET old == WatermarkOf(stateFile[n])
           new == WatermarkOf(stateFile'[n])
       IN old # <<>> => (new # <<>> /\ old[1] <= new[1])]_vars

\* C9: in a run, lastProcessedBlock changes only in the step after the
\* collector has returned with an empty work list, to endBlock, whether or
\* not segments were abandoned; the write of the catch block leaves it as it
\* is.
C9_WatermarkSetAfterCollection ==
  /\ [](ppc = "history" =>
          /\ cpc = "returned"
          /\ segments = <<>>
          /\ WatermarkOf(stateFile[pNetwork]) = <<endBlock>>)
  /\ [][~RunOver =>
          \A n \in StateKeys :
            WatermarkOf(stateFile'[n]) # WatermarkOf(stateFile[n]) =>
              /\ ppc = "collecting"
              /\ cpc = "returned"
              /\ segments = <<>>
              /\ n = pNetwork
              /\ WatermarkOf(stateFile'[n]) = <<endBlock>>]_vars
  /\ [][(ppc = "catch" /\ ~pSkipStateUpdate) =>
          /\ lastWrite' # lastWrite
          /\ lastWrite'[1].state = ErrorState
          /\ \A n \in StateKeys :
               WatermarkOf(stateFile'[n]) = WatermarkOf(stateFile[n])]_vars

\* a run that abandoned a segment has moved the watermark to endBlock, has
\* then failed, and has written the error state
C9_Witness ==
  /\ ppc = "failed"
  /\ failedSegments # <<>>
  /\ lastWrite # <<>>
  /\ "lastProcessedBlock" \notin DOMAIN lastWrite[1].state
  /\ lastWrite[1].network = pNetwork
  /\ WatermarkOf(stateFile[pNetwork]) = <<endBlock>>
  /\ WatermarkOf(lastWrite[1].existing) = <<endBlock>>
  /\ endBlock > startBlock

(***************************************************************************)
(* Properties of the feed manager.                                         *)
(***************************************************************************)
\* parseEventDate(event.timestamp) is a Date that has a time value
HasValidDate(event) ==
  /\ parseEventDate(event.timestamp) # <<>>
  /\ parseEventDate(event.timestamp)[1].valid

ItemsWithGuid(list, guid) == { i \in 1..Len(list) : list[i].guid = guid }

\* the step is an addEvent call
AddEventStep == lastAdd' # NoCall /\ lastAdd' # lastAdd

\* the addEvent call of the step follows a call with an event of the same
\* GUID
SecondCallWithGuid ==
  /\ lastAdd'[1].previous # <<>>
  /\ getEventGuid(lastAdd'[1].previous[1].identity) =
       getEventGuid(lastAdd'[1].event.identity)

\* the addEvent call of the step leaves the manager as it is, with one item
\* of the event's GUID
CallChangesNothing ==
  /\ items' = items
  /\ seenGuids' = seenGuids
  /\ Cardinality(ItemsWithGuid(items', getEventGuid(lastAdd'[1].event.identity))) = 1

MainFeedGuids ==
  GuidsOf(items) \cup (IF publishedFeed = NoFeed THEN {} ELSE GuidsOf(publishedFeed[1]))

\* C11: no GUID is both in an archive and in the main feed, and no GUID is
\* in two archives.
C11_GuidConsumedOnce ==
  /\ \A a \in archives : GuidsOf(a.content) \cap MainFeedGuids = {}
  /\ \A a, b \in archives : a # b => GuidsOf(a.content) \cap GuidsOf(b.content) = {}

\* the last call was an updateRSSFeed call that has returned
UpdateCompleted == lastUpdate # NoCall /\ lastUpdate[1].returned # <<>>

\* C12: after an updateRSSFeed call that has returned, the manager's item
\* list and the published main feed hold at most ARCHIVE_ITEM_THRESHOLD
\* items.
C12_ThresholdInvariant ==
  UpdateCompleted =>
    /\ Len(items) <= ARCHIVE_ITEM_THRESHOLD
    /\ publishedFeed # NoFeed => Len(publishedFeed[1]) <= ARCHIVE_ITEM_THRESHOLD

\* an updateRSSFeed call that found more items than the threshold has
\* uploaded the main feed
C12_Witness ==
  /\ UpdateCompleted
  /\ lastUpdate[1].returned = <<TRUE>>
  /\ Len(lastUpdate[1].itemsBefore) > ARCHIVE_ITEM_THRESHOLD
  /\ Len(items) = ARCHIVE_ITEM_THRESHOLD
  /\ publishedFeed # NoFeed
  /\ Len(publishedFeed[1]) = ARCHIVE_ITEM_THRESHOLD

\* the last call was an updateRSSFeed call that has archived
UpdateArchived == lastUpdate # NoCall /\ lastUpdate[1].archived # <<>>

\* C13: after an archiving updateRSSFeed call the kept items are
\* ARCHIVE_ITEM_THRESHOLD items, no GUID is both kept and archived, the kept
\* and the archived items are the items the manager held before the call,
\* and no archived item is newer than a kept one.
C13_ArchivedAreOldestExcess ==
  UpdateArchived =>
    LET before == lastUpdate[1].itemsBefore
        archived == lastUpdate[1].archived[1]
    IN /\ Len(items) = ARCHIVE_ITEM_THRESHOLD
       /\ Len(items) + Len(archived) = Len(before)
       /\ GuidsOf(items) \cap GuidsOf(archived) = {}
       /\ EntriesOf(FeedXml(items)) \cup EntriesOf(archived) =
            EntriesOf(FeedXml(before))
       /\ GuidsOf(items) \cup GuidsOf(archived) = GuidsOf(before)
       /\ \A i \in 1..Len(items), j \in 1..Len(archived) :
            ~Newer(archived[j], items[i])
       /\ \E file \in archives : file.content = archived

\* an archiving call has kept items that were added after the archived one
\* and are newer
C13_Witness ==
  /\ UpdateArchived
  /\ lastUpdate[1].itemsBefore # Generate(lastUpdate[1].itemsBefore)
  /\ \E i \in 1..Len(items) :
       /\ Newer(items[i], lastUpdate[1].archived[1][1])
       /\ items[i].guid # lastUpdate[1].itemsBefore[i].guid

\* C14: an archiving updateRSSFeed call that finds a blob named with the
\* hash of its archive content uploads no archive, and no two archive blobs
\* have the same content.
C14_ArchiveContentAddressed ==
  /\ UpdateArchived =>
       (ExistingArchive(lastUpdate[1].archivesBefore,
                        ArchiveHash(lastUpdate[1].archived[1])) # {}
          => archives = lastUpdate[1].archivesBefore)
  /\ \A a, b \in archives : a.content = b.content => a = b

\* an archiving call has found its archive content in a blob an earlier call
\* uploaded
C14_Witness ==
  /\ UpdateArchived
  /\ archives = lastUpdate[1].archivesBefore
  /\ \E file \in archives :
       /\ file.content = lastUpdate[1].archived[1]
       /\ file.time < lastUpdate[1].call

SameDate(a, b) == ~Newer(a, b) /\ ~Newer(b, a)

\* C15: the list generate() returns is ordered by date, newest first, and
\* items of one date by block number, highest first.
C15_GenerateOrder ==
  lastUpdate # NoCall =>
    LET sorted == Generate(lastUpdate[1].itemsBefore)
    IN \A i, j \in 1..Len(sorted) :
         i < j =>
           /\ ~Newer(sorted[j], sorted[i])
           /\ SameDate(sorted[i], sorted[j]) =>
                sorted[i].description.block >= sorted[j].description.block

\* the timestamp is neither a number nor a text that is a date
Unparsable(timestamp) == timestamp.number = <<>> /\ timestamp.parsed = <<>>

\* C16: addEvent with an event whose timestamp is neither a number nor a
\* date returns without a change of the item list and of the seen-GUID set,
\* and the next call with an event that has a date and a GUID not seen adds
\* its item.
C16_UnparsableTimestampRejected ==
  /\ [][(AddEventStep /\ Unparsable(lastAdd'[1].event.timestamp)) =>
          /\ lastAdd'[1].outcome = "rejected"
          /\ items' = items
          /\ seenGuids' = seenGuids]_vars
  /\ [][(/\ AddEventStep
         /\ lastAdd # NoCall
         /\ lastAdd[1].outcome = "rejected"
         /\ HasValidDate(lastAdd'[1].event)
         /\ getEventGuid(lastAdd'[1].event.identity) \notin seenGuids) =>
          /\ lastAdd'[1].outcome = "added"
          /\ Len(items') = Len(items) + 1
          /\ items'[Len(items')].guid = getEventGuid(lastAdd'[1].event.identity)
          /\ SubSeq(items', 1, Len(items)) = items]_vars

\* an event was added by the call that followed the call with an event of a
\* timestamp that is no date
C16_Witness ==
  /\ lastAdd # NoCall
  /\ lastAdd[1].outcome = "added"
  /\ lastAdd[1].previous # <<>>
  /\ lastAdd[1].previous[1].timestamp = TextString
  /\ getEventGuid(lastAdd[1].previous[1].identity) \notin seenGuids
  /\ Len(items) = 2

\* the last call was updateRSSFeed and it has reached upload(feed)
UploadCalled == lastUpdate # NoCall /\ lastUpdate[1].outcome \in UploadOutcomes

InHistorySection(c) == lpc[c].at \in {"download", "upload"}

\* the caller is between acquireRSSLock and the end of the finally block
InFeedSection(c) == lpc[c].at \in {"addEventToRSS", "updateRSSFeed"}

Crashed(c) == lpc[c].at = "crashed"

\* C18: a lock file exists under the name of a caller only while that caller
\* is inside the section the lock guards (or its process was killed there):
\* once updateProcessingHistory or the feed update has returned or thrown,
\* the file the caller created is gone.
C18_LockReleasedOnEveryExit ==
  \A c \in Callers :
    /\ historyLock = CreateLock(c) => InHistorySection(c) \/ Crashed(c)
    /\ rssLock = CreateLock(c) => InFeedSection(c) \/ Crashed(c)

\* one caller has left updateProcessingHistory by an error thrown under the
\* lock, another the feed update by an error thrown under the RSS lock, and
\* neither lock file exists
C18_Witness ==
  /\ historyLock = NoLock
  /\ rssLock = NoLock
  /\ \E c, d \in Callers :
       /\ lpc[c].at = "thrown"
       /\ lpc[c].error = <<"history update failed">>
       /\ lpc[d].at = "thrown"
       /\ lpc[d].error = <<"feed update failed">>
  /\ \A c \in Callers : ~Crashed(c)

\* C19: at most one caller is between acquireLock and the end of
\* updateProcessingHistory.
C19_HistoryLockSerializesWriters ==
  \A c, d \in Callers :
    InHistorySection(c) /\ InHistorySection(d) => c = d

\* the lock file of a caller whose process was killed
Stale(lock) == lock # NoLock /\ Crashed(lock[1])

\* C20: a lock file left by a killed process stays: no step changes it, a
\* caller waiting for it ends with the timeout error, and a lock file is
\* removed only by the caller that created it.
C20_StaleLockNeverBroken ==
  /\ [][Stale(historyLock) =>
          /\ historyLock' = historyLock
          /\ \A c \in Callers :
               (lpc[c].at = "acquireLock" /\ lpc'[c] # lpc[c] /\ ~lpc[c].inCatch) =>
                 lpc'[c].error = <<"Could not acquire lock">>]_vars
  /\ [][Stale(rssLock) =>
          /\ rssLock' = rssLock
          /\ \A c \in Callers :
               (lpc[c].at = "acquireRSSLock" /\ lpc'[c] # lpc[c]) =>
                 lpc'[c].error = <<"Could not acquire RSS lock">>]_vars
  /\ [][(historyLock # NoLock /\ historyLock' = NoLock) =>
          <<historyLock[1]>> = lockActor']_vars
  /\ [][(rssLock # NoLock /\ rssLock' = NoLock) =>
          <<rssLock[1]>> = lockActor']_vars

(***************************************************************************)
(* Properties of the processing history.                                   *)
(***************************************************************************)
RecordsOf(list) == { list[i] : i \in 1..Len(list) }

\* the last call of updateProcessingHistory has returned without an error
HistoryCallSucceeded == lastHistory # NoCall /\ lastHistory[1].upload = "uploaded"

ArchivedRecords == UNION { RecordsOf(a.records) : a \in historyArchives }

\* C21: after a call of updateProcessingHistory that succeeded, every record
\* the history blob held before the call is in the history blob or in an
\* archive blob, and the new record is the last record of the history blob.
C21_HistoryAppendOnly ==
  HistoryCallSucceeded =>
    LET before == IF lastHistory[1].blobBefore = NoBlob
                    THEN {}
                    ELSE RecordsOf(lastHistory[1].blobBefore[1].records)
        after == historyBlob[1].records
    IN /\ before \subseteq RecordsOf(after) \cup ArchivedRecords
       /\ Len(after) > 0
       /\ after[Len(after)] = lastHistory[1].record

\* C22: with the records after the append numbering ARCHIVE_THRESHOLD or more
\* and no archive timestamp in the history or one that is
\* MIN_TIME_BETWEEN_ARCHIVES old, one archive blob is written with all but the
\* newest HISTORY_KEPT records and the history blob holds those newest
\* records in their order; otherwise the history blob holds all records and
\* no archive blob is written.
C22_HistoryArchival ==
  HistoryCallSucceeded =>
    LET call == lastHistory[1]
        records == call.pushed.records
        n == Len(records)
        last == call.pushed.lastArchiveTimestamp
        due == /\ n >= ARCHIVE_THRESHOLD
               /\ (last # <<>> => call.time - last[1] >= MIN_TIME_BETWEEN_ARCHIVES)
    IN IF due
         THEN /\ historyBlob[1].records = SubSeq(records, n - HISTORY_KEPT + 1, n)
              /\ \E a \in historyArchives :
                   /\ a.records = SubSeq(records, 1, n - HISTORY_KEPT)
                   /\ historyArchives \ {a} \subseteq call.archivesBefore
         ELSE /\ historyBlob[1].records = records
              /\ historyArchives = call.archivesBefore

\* a second archival: the history had an archive timestamp old enough, more
\* records than the threshold, and the call has cut it to the newest ones
C22_Witness ==
  /\ HistoryCallSucceeded
  /\ lastHistory[1].pushed.lastArchiveTimestamp # <<>>
  /\ Len(lastHistory[1].pushed.records) >= ARCHIVE_THRESHOLD
  /\ Len(historyBlob[1].records) = HISTORY_KEPT
  /\ Cardinality(historyArchives) = 2
  /\ lastHistory[1].download = "loaded"

(***************************************************************************)
(* Properties of the log source adapter.                                   *)
(***************************************************************************)
RECURSIVE LogsOfPages(_)
\* the logs of the pages 1..n, page after page
LogsOfPages(n) == IF n = 0 THEN <<>> ELSE LogsOfPages(n - 1) \o LogsOfPage(n)

BulkRequests == SelectSeq(requests, LAMBDA r : r.method = "alchemy_getLogs")

StandardRequests == SelectSeq(requests, LAMBDA r : r.method = "eth_getLogs")

\* C23: the first bulk request has no page key, every later one has the page
\* key of the response before it and the same filter; a call in which no
\* bulk request throws goes on while the last response has a page key and
\* returns the logs of all pages it got, in the order of the pages.
C23_PaginationFollowsCursor ==
  LET n == Len(BulkRequests)
  IN /\ \A i \in 1..n :
          /\ BulkRequests[i].filter = BuildRpcFilter(filter)
          /\ BulkRequests[i].pageKey =
               IF i = 1 THEN NoPageKey ELSE <<[cursor |-> i]>>
     /\ StandardRequests = <<>> =>
          /\ (gpc = "requesting" /\ n > 0) => PageKeyOfPage(n) # NoPageKey
          /\ gpc = "returned" =>
               /\ PageKeyOfPage(n) = NoPageKey
               /\ result = <<LogsOfPages(n)>>
          /\ gpc # "thrown"

\* a call has returned the logs of three pages
C23_Witness ==
  /\ gpc = "returned"
  /\ Len(BulkRequests) = 3
  /\ StandardRequests = <<>>
  /\ Len(result[1]) > 3
  /\ provider.pages[2].shape = "object without logs"

\* C24: a call in which a bulk request has thrown has made one standard
\* request, with the filter it was called with, as its last request, and has
\* returned the logs of that request alone or thrown its error.
C24_FallbackReturnsStandardResult ==
  (provider.failAt # 0 /\ Len(BulkRequests) >= provider.failAt) =>
    /\ Len(BulkRequests) = provider.failAt
    /\ Len(StandardRequests) = 1
    /\ requests[Len(requests)].method = "eth_getLogs"
    /\ StandardRequests[1].filter = filter
    /\ gpc \in {"returned", "thrown"}
    /\ gpc = "thrown" <=> provider.standard = "throws"
    /\ gpc = "returned" => result = <<StandardLogs>>

\* the third bulk request has thrown after two pages with logs, and the call
\* has returned the logs of the standard request
C24_Witness ==
  /\ provider.failAt = 3
  /\ Len(BulkRequests) = 3
  /\ Len(logs) > 1
  /\ gpc = "returned"
  /\ result = <<StandardLogs>>
  /\ StandardLogs # <<>>

(***************************************************************************)
(* Further properties of the collector and of the feed manager.            *)
(***************************************************************************)
\* C25: a fetch that fails for a missing event signature ends the collection
\* with that error: no segment is listed as failed with it and no record
\* error is written for it.
C25_PermanentFailureIsFatal ==
  /\ \A i \in 1..Len(failedSegments) :
       failedSegments[i].error # "missing event signature"
  /\ \A i \in 1..Len(recordErrors) :
       recordErrors[i].error[4] # "missing event signature"

\* C26: a call of updateRSSFeed in which the upload of the archive blob has
\* failed does not throw and the blob store holds the feed cut to the newest
\* items.
C26_ArchiveFailureNotFatal ==
  (lastUpdate # NoCall /\ lastUpdate[1].outcome = "archive failed") =>
    /\ lastUpdate[1].returned # <<>>
    /\ publishedFeed = <<FeedXml(ItemsToKeep(Generate(lastUpdate[1].itemsBefore)))>>

\* the text without its blanks, in lower case
Normalized(text) ==
  LET kept == SelectSeq(text, LAMBDA c : c # " ")
  IN [i \in 1..Len(kept) |-> ToLowerCase(kept[i])]

LinkInLowerCase(text) == [i \in 1..Len(text) |-> ToLowerCase(text[i])]

\* the two events have the same normalized identity tuple
SameIdentity(a, b) ==
  /\ Normalized(a.networkName) = Normalized(b.networkName)
  /\ Normalized(a.title) = Normalized(b.title)
  /\ LinkInLowerCase(a.link) = LinkInLowerCase(b.link)
  /\ a.chainId = b.chainId
  /\ a.block = b.block

Identities == { event.identity : event \in FeedEvents }

\* the GUIDs the two implementations give the identities
GuidOfIdentity == [a \in Identities |-> getEventGuid(a)]

PreviewGuidOfIdentity == [a \in Identities |-> feedPreviewGetEventGuid(a)]

SameIdentityPairs == { pair \in Identities \X Identities : SameIdentity(pair[1], pair[2]) }

\* C27: events of the same normalized identity tuple have the same GUID, the
\* GUID addEvent gives an item is the GUID of the tuple, and getEventGuid of
\* rss/utils and of feedPreview agree on every event.
C27_GuidDependsOnIdentityOnly ==
  /\ \A pair \in SameIdentityPairs : GuidOfIdentity[pair[1]] = GuidOfIdentity[pair[2]]
  /\ PreviewGuidOfIdentity = GuidOfIdentity
  /\ (lastAdd # NoCall /\ lastAdd[1].outcome = "added") =>
       \A pair \in SameIdentityPairs :
         pair[1] = lastAdd[1].event.identity =>
           items[Len(items)].guid = PreviewGuidOfIdentity[pair[2]]

\* an event was added whose identity has a second spelling among the events
C27_Witness ==
  /\ lastAdd # NoCall
  /\ lastAdd[1].outcome = "added"
  /\ \E other \in Identities :
       /\ other # lastAdd[1].event.identity
       /\ <<lastAdd[1].event.identity, other>> \in SameIdentityPairs
       /\ items[Len(items)].guid = GuidOfIdentity[other]

(***************************************************************************)
(* Properties of the block timestamp cache.                                *)
(***************************************************************************)
CacheEntriesOf(m) == {m[i] : i \in 1..Len(m)}

\* The entries the last set removed from the Map it had written to
EvictedBySet == CacheEntriesOf(lastSet[1].afterSet) \ CacheEntriesOf(blockCache)

\* C28: after every set the cache holds at most maxEntries entries; a set
\* that pushed the size above the bound has evicted floor(maxEntries / 10)
\* entries, none of them cached later than an entry that was kept, and a set
\* that did not has evicted nothing; in both cases get, called at the time
\* of the set, returns the timestamp just set.
C28_CacheSizeBounded ==
  lastSet # <<>> =>
    LET call == lastSet[1] IN
      /\ Len(blockCache) <= maxEntries
      /\ IF Len(call.afterSet) > maxEntries
         THEN /\ Cardinality(EvictedBySet) = maxEntries \div 10
              /\ \A e \in EvictedBySet :
                   \A k \in CacheEntriesOf(blockCache) : e.cached <= k.cached
         ELSE blockCache = call.afterSet
      /\ \E i \in 1..Len(blockCache) :
           /\ blockCache[i].blockNumber = call.blockNumber
           /\ blockCache[i].timestamp = call.timestamp
           /\ blockCache[i].cached = call.time
      /\ CacheGet(blockCache, call.blockNumber, call.time)
           = <<call.timestamp>>

\* C28 witness: a set has pushed the size above the bound while the oldest
\* entry was not the first of the Map, and the cache is full again.
C28_Witness ==
  /\ lastSet # <<>>
  /\ Len(lastSet[1].afterSet) > maxEntries
  /\ \E i \in 2..Len(lastSet[1].afterSet) :
       lastSet[1].afterSet[i].cached < lastSet[1].afterSet[1].cached
  /\ EvictedBySet # {}
  /\ Len(blockCache) = maxEntries

(***************************************************************************)
(* The scenario of the rejecting log source.                               *)
(***************************************************************************)
\* the first block that no successful fetch has covered yet
NextUnfetched ==
  IF cpc \in {"fetching", "backoff"} THEN segment.from
  ELSE IF segments # <<>> THEN Head(segments).from
  ELSE IF cpc = "idle" THEN Scenario.startBlock
  ELSE endBlock + 1

\* a successful fetch is one of at most the limit, and starts at the first
\* block not fetched yet and moves that block behind its segment
LeafFetched ==
  apiCalls' # apiCalls =>
    /\ segment.to - segment.from <= Scenario.limit
    /\ segment.from = NextUnfetched
    /\ NextUnfetched' = segment.to + 1

\* no other step of the collector moves the first block not fetched yet
NothingSkipped ==
  apiCalls' = apiCalls /\ cpc # "idle" => NextUnfetched' = NextUnfetched

ScenarioReturned ==
  cpc = "returned" =>
    /\ failedSegments = <<>>
    /\ NextUnfetched = Scenario.endBlock + 1
    /\ collected = SortEvents(chain)

\* C29 (as stated): the collector returns the events of at least 50
\* successfully fetched segments, with no failed segment.
C29_AsStated ==
  cpc = "returned" => apiCalls >= 50 /\ failedSegments = <<>>

\* C29 (amended): for the range [1000,1099] and a log source that rejects
\* every request with to - from > 20, the collector returns the events of
\* exactly 8 successfully fetched segments, each with to - from <= 20, that
\* follow one another from block 1000 to block 1099 without gap or overlap,
\* with no failed segment and every event of the range, sorted.
C29_ScenarioLeafSegments ==
  /\ [](ScenarioReturned /\ (cpc = "returned" => apiCalls = 8))
  /\ [][LeafFetched]_vars
  /\ [][NothingSkipped]_vars

\* C29 witness: the run over a chain with events in every segment returned
C29_Witness ==
  /\ cpc = "returned"
  /\ apiCalls = 8
  /\ chain = ScenarioFullChain
  /\ Len(collected) = Len(chain)

(***************************************************************************)
(* Properties of the two pipelines of processLatestBlocks.                 *)
(***************************************************************************)
\* until uploadStateFile removes the file, it holds for every pipeline that
\* has written the record that pipeline wrote last
LatestRecordsHeld ==
  mainPc # "exited" =>
    \A n \in PipelineNetworks :
      lastRecords[n] # <<>> => stateFile[n] = lastRecords[n]

\* a step changes the record of a network only when it is a write of the
\* pipeline of that network
OnlyOwnRecordWritten ==
  mainPc' # "exited" =>
    \A m \in StateKeys :
      stateFile'[m] # stateFile[m] =>
        /\ m \in PipelineNetworks
        /\ tpc'[m] # tpc[m]
        /\ lastRecords'[m] = stateFile'[m]
        /\ lastWrite'[1].network = m

\* C30: the state writes of the two concurrent pipelines do not interfere:
\* an updateState of one network leaves the record of every other network
\* as it was, and once a pipeline has written, the state file holds the
\* record it wrote last, whatever the other pipeline does in between.
C30_StateWritesDoNotInterfere ==
  /\ []LatestRecordsHeld
  /\ [][OnlyOwnRecordWritten]_vars

\* C30 witness: both pipelines have written, one of them a second time from
\* its catch block while the other is still running, and the file holds
\* the last record of both
C30_Witness ==
  /\ mainPc = "awaiting"
  /\ tpc["Ethereum Mainnet"].at = "catch history"
  /\ tpc["ZKSync"].at = "history"
  /\ lastWrite # <<>>
  /\ lastWrite[1].network = "Ethereum Mainnet"
  /\ lastWrite[1].existing # <<>>
  /\ lastWrite[1].existing[1].lastProcessedBlock = <<headBlocks["Ethereum Mainnet"]>>
  /\ stateFile["Ethereum Mainnet"][1].hasError = <<TRUE>>
  /\ stateFile["ZKSync"][1].lastProcessedBlock = <<headBlocks["ZKSync"]>>
  /\ stateFile["ZKSync"] # stateData["ZKSync"]

C32_AttemptsBounded ==
  cpc = "fetching" => segment.attempt + 1 <= MAX_SEGMENT_ATTEMPTS

Span(seg) == seg.to - seg.from

\* the step in which a fetch fails
FailStep == cpc = "fetching" /\ apiCalls' = apiCalls

\* C33: a failed segment with to - from > MIN_SEGMENT_SPAN is split into two
\* children with attempt 0, and is neither retried nor recorded as failed;
\* only segments with to - from <= MIN_SEGMENT_SPAN are retried or given
\* up, so every failed segment has a span of at most MIN_SEGMENT_SPAN.
C33_NarrowingBeforeRetry ==
  /\ [](/\ \A i \in 1..Len(failedSegments) :
             Span(failedSegments[i]) <= MIN_SEGMENT_SPAN
        /\ \A i \in 1..Len(segments) :
             segments[i].attempt > 0 => Span(segments[i]) <= MIN_SEGMENT_SPAN
        /\ (cpc = "backoff" => Span(segment) <= MIN_SEGMENT_SPAN))
  /\ [][FailStep /\ Span(segment) > MIN_SEGMENT_SPAN =>
          /\ Len(segments') = Len(segments) + 2
          /\ segments'[1].attempt = 0 /\ segments'[2].attempt = 0
          /\ segments'[1].from = segment.from
          /\ segments'[2].to = segment.to
          /\ cpc' = "pacing"
          /\ failedSegments' = failedSegments]_vars

\* C33 witness: a range wider than twice MIN_SEGMENT_SPAN was split, and two
\* segments of the narrow kind were retried and given up
C33_Witness ==
  /\ cpc = "returned"
  /\ endBlock - startBlock > 2 * MIN_SEGMENT_SPAN
  /\ Len(failedSegments) >= 2
  /\ apiCalls >= 1

\* the work list changes at its front only: a pop, or a push of one segment
\* (a retry) or of two (the children of a split)
StackStep ==
  IF Len(segments') = Len(segments) THEN segments' = segments
  ELSE IF Len(segments') = Len(segments) - 1
    THEN segments' = Tail(segments) /\ segment' = Head(segments)
  ELSE IF Len(segments') = Len(segments) + 1
    THEN Tail(segments') = segments
  ELSE /\ Len(segments') = Len(segments) + 2
       /\ Tail(Tail(segments')) = segments

\* the segments still to be resolved, the one in hand first
Unresolved ==
  IF cpc \in {"fetching", "backoff"} THEN <<segment>> \o segments ELSE segments

\* C34: the work list is a stack.  The segments still to be resolved are in
\* ascending order without overlap, the one in hand or on top first: when a
\* segment is attempted nothing to its left is left to resolve, so the left
\* child of a split and all its descendants are resolved before the right
\* child is attempted, and both before any segment that was waiting.
C34_WorkListIsLifo ==
  /\ [](cpc # "idle" =>
          /\ \A i \in 1..(Len(Unresolved) - 1) :
               Unresolved[i].to < Unresolved[i + 1].from
          /\ \A i \in 1..Len(Unresolved) :
               Unresolved[i].from >= startBlock /\ Unresolved[i].to <= endBlock)
  /\ [][cpc # "idle" /\ cpc # "returned" => StackStep]_vars

\* C34 witness: a right child is attempted after the segment to its left was
\* fetched or given up, while a segment that was waiting is still waiting
C34_Witness ==
  /\ cpc = "fetching"
  /\ segment.from > startBlock
  /\ segment.attempt = 0
  /\ segments # <<>>
  /\ failedSegments # <<>> \/ apiCalls > 0

\* C35: the backoff before the retry that follows k earlier retries of a
\* segment is RETRY_DELAY_BASE * 2^k, twice the one before.
C35_BackoffIsExponential ==
  cpc = "backoff" => sleepMs = RETRY_DELAY_BASE * 2 ^ segment.attempt

\* a fetch attempt after which the loop goes on without a sleep leaves no
\* segment to fetch
NoSleepOnlyAtEnd ==
  (cpc = "fetching" /\ cpc' = "loop") => Len(segments') = 0

\* C36: between two consecutive fetch attempts of a run there is a sleep:
\* after a success, a split, a retry decision and an abandoned segment.
C36_DelayBetweenFetches == [][NoSleepOnlyAtEnd]_vars

\* the first block that is neither fetched nor given up
Frontier ==
  IF Unresolved # <<>> THEN Unresolved[1].from ELSE endBlock + 1

InFailedSegment(b) ==
  \E i \in 1..Len(failedSegments) :
    failedSegments[i].from <= b /\ b <= failedSegments[i].to

\* a successful fetch and an abandonment take the segment that starts at
\* the frontier and move the frontier behind it; no other step moves it
ResolveStep ==
  IF cpc \in {"idle", "returned"}
    THEN cpc' = "loop" => Frontier' = startBlock'
  ELSE IF apiCalls' # apiCalls
    THEN /\ segment.from = Frontier
         /\ Frontier' = segment.to + 1
         /\ failedSegments' = failedSegments
  ELSE IF failedSegments' # failedSegments
    THEN /\ segment.from = Frontier
         /\ Frontier' = segment.to + 1
         /\ Len(failedSegments') = Len(failedSegments) + 1
         /\ SubSeq(failedSegments', 1, Len(failedSegments)) = failedSegments
         /\ failedSegments'[Len(failedSegments')].from = segment.from
         /\ failedSegments'[Len(failedSegments')].to = segment.to
  ELSE Frontier' = Frontier

CoveredAtReturn ==
  (cpc = "returned" /\ startBlock <= endBlock) =>
    /\ Frontier = endBlock + 1
    /\ collected =
         SortEvents(SelectSeq(chain, LAMBDA l :
                      /\ l.blocknumber >= startBlock
                      /\ l.blocknumber <= endBlock
                      /\ ~InFailedSegment(l.blocknumber)))

\* C37: the segments fetched successfully and the failed segments follow
\* one another from startBlock to endBlock without gap or overlap, so that
\* every block of the range lies in exactly one of them; the returned list
\* holds every event of the fetched blocks once.
C37_FetchedAndFailedPartitionRange ==
  /\ []CoveredAtReturn
  /\ [][ResolveStep]_vars

\* C37 witness: a run returned with segments fetched, a segment given up,
\* and the events of the chain outside the failed segment
C37_Witness ==
  /\ cpc = "returned"
  /\ apiCalls >= 2
  /\ failedSegments # <<>>
  /\ Len(collected) >= 2
  /\ \E i \in 1..Len(chain) :
       /\ chain[i].blocknumber <= endBlock
       /\ InFailedSegment(chain[i].blocknumber)

(***************************************************************************)
(* The watermark and the feed.                                             *)
(***************************************************************************)
\* the run has ended with state and feed updates enabled, events collected
\* and the stored watermark at its endBlock
WatermarkAtEndBlock ==
  /\ ppc \in {"done", "failed"}
  /\ ~pSkipStateUpdate
  /\ pUpdateFeed
  /\ collected # <<>>
  /\ stateFile[pNetwork] # <<>>
  /\ stateFile[pNetwork][1].lastProcessedBlock = <<endBlock>>

\* C38: a run that has set the stored lastProcessedBlock to its endBlock
\* has, by the time it ends, run through the feed update block (every
\* collected event passed to addEventToRSS, updateRSSFeed called), also when
\* the history update or the RSS lock acquisition fails.
C38_WatermarkBehindFeed == WatermarkAtEndBlock => ppc = "done"


(***************************************************************************)
(* The published feed shared with another run.  The manager is the one     *)
(* instance of this process (getInstance); both pipelines of the process   *)
(* update the feed through it, each under the RSS lock.  Between two such  *)
(* updates the lock is free and another process may take it and run its    *)
(* own update.                                                             *)
(***************************************************************************)
\* the events this process feeds to its manager
OwnEvents ==
  { e \in FeedEvents : e.identity.block # 16
                         /\ e.timestamp \in {SecondsString, MillisNumber} }

\* the event the other run has found
OtherRunEvent ==
  CHOOSE e \in FeedEvents : e.identity.block = 16 /\ e.timestamp = MillisNumber

\* this process is between two lock-protected updates: the RSS lock is free
BetweenUpdates == lastAdd = NoCall /\ (initialized => lastUpdate # NoCall)

\* the feed block of another process, under the RSS lock: its manager loads
\* the published feed, adds its event, and updateRSSFeed uploads the result
OtherRunUpdatesFeed ==
  /\ BetweenUpdates
  /\ feedCalls < MaxFeedCalls
  /\ feedCalls' = feedCalls + 1
  /\ LET parsed == IF publishedFeed = NoFeed THEN <<>> ELSE publishedFeed[1]
         loaded == LoadedItems({}, parsed)
         existing == [i \in 1..Len(loaded) |-> loaded[i].item]
         theirs == IF getEventGuid(OtherRunEvent.identity) \in GuidsOf(existing)
                     THEN existing
                     ELSE Append(existing, NewItem(OtherRunEvent))
         sorted == Generate(theirs)
         archiving == Len(sorted) > ARCHIVE_ITEM_THRESHOLD
         feedItems == IF archiving THEN ItemsToKeep(sorted) ELSE sorted
     IN /\ archives' = IF archiving
                         THEN UploadArchive(archives, FeedXml(ItemsToArchive(sorted)),
                                            feedCalls + 1)
                         ELSE archives
        /\ publishedFeed' = <<FeedXml(feedItems)>>
  /\ UNCHANGED <<initialized, seenGuids, items, loadedGuids, lastAdd, lastUpdate>>
  /\ UNCHANGED <<taskVars, cacheVars, pageVars, chain, collectorVars, storeVars, pipelineVars, lockVars, historyVars>>

SharedFeedNext ==
  \/ Initialize
  \/ \E event \in OwnEvents : AddEvent(event)
  \/ UpdateRSSFeed
  \/ OtherRunUpdatesFeed

SharedFeedSpec == FeedInit /\ [][SharedFeedNext]_vars

\* the guids of the items of a main feed of the blob store
PublishedGuids(feed) == IF feed = NoFeed THEN {} ELSE GuidsOf(feed[1])

\* the guids of the items an update has moved to an archive
ArchivedGuids(update) ==
  IF update.archived = <<>> THEN {} ELSE GuidsOf(update.archived[1])

\* updateRSSFeed of this process has put a main feed into the blob store
OwnUpload ==
  /\ lastUpdate' # NoCall
  /\ lastUpdate' # lastUpdate
  /\ Stored(lastUpdate'[1].outcome)

\* the step keeps every item of the feed that was published when the lock
\* was taken, apart from the items archived in this update
UploadKeepsPublished ==
  OwnUpload =>
    PublishedGuids(publishedFeed) \subseteq
      (PublishedGuids(publishedFeed') \cup ArchivedGuids(lastUpdate'[1]))

\* C39: every main feed uploaded by updateRSSFeed under the RSS lock contains
\* every item of the main feed that was in the blob store when the lock was
\* taken, except the items it moved to an archive in that cycle, also when
\* another run has uploaded the feed between two updates of this manager.
C39_NoItemLostByInterleavedWriters == [][UploadKeepsPublished]_vars

\* all uploads succeeding and nothing archived: the item of the other
\* run is in the published feed until this process updates the feed again
OtherRunItemPublished ==
  getEventGuid(OtherRunEvent.identity) \in PublishedGuids(publishedFeed)

CleanOwnUpload ==
  /\ OwnUpload
  /\ lastUpdate'[1].outcome = "uploaded"
  /\ lastUpdate'[1].archived = <<>>
  /\ archives' = {}

OwnUploadKeepsOtherRunItem ==
  (CleanOwnUpload /\ OtherRunItemPublished) => OtherRunItemPublished'

OtherRunItemSurvives == [][OwnUploadKeepsOtherRunItem]_vars


\* what a run reads from the cache for block b is nothing or the timestamp
\* the chain reports for b
ReadsChainTimestamp(b) ==
  CacheGet(blockCache, b, cacheClock) \in {<<>>, <<BlockTimestamp(b)>>}

\* C40: every timestamp stored in a block timestamp cache for block b is the
\* timestamp the chain reported for b: no fallback value (the time of the
\* call) is cached, so that a later run reads no wrong timestamp for b.
C40_OnlyChainTimestampsCached ==
  /\ \A i \in 1..Len(blockCache) :
       blockCache[i].timestamp = BlockTimestamp(blockCache[i].blockNumber)
  /\ \A i \in 1..Len(cacheFile) :
       cacheFile[i].timestamp = BlockTimestamp(cacheFile[i].blockNumber)
  /\ \A b \in 1..MaxCacheBlock : ReadsChainTimestamp(b)

====
